---- MODULE Spec2Model ----
(***************************************************************************)
(* Dual-bank firmware updater of OpenTrickler-v2: the bootloader           *)
(* (src/src/bootloader/bootloader.c), the firmware manager                 *)
(* (src/src/firmware_update/firmware_manager.c), the streaming CRC         *)
(* (src/src/firmware_update/crc32.c) and the double-buffered metadata      *)
(* store they call.                                                        *)
(*                                                                         *)
(* metadata.c, flash_ops.c and flash_partitions.h are not part of the      *)
(* sources at hand: the metadata_* and flash_* operations and the bank     *)
(* layout are modelled from the specification (sections 3 and 4.5).        *)
(***************************************************************************)
EXTENDS Integers, Sequences, FiniteSets, TLC

(***************************************************************************)
(* Program constants.                                                      *)
(***************************************************************************)
FLASH_PAGE_SIZE == 256
MAX_BOOT_ATTEMPTS == 3

(***************************************************************************)
(* Bounds of the model.                                                    *)
(*   BankPages  capacity of one firmware bank, in flash pages              *)
(*   MaxFaults  number of injected faults (failed metadata write, failed   *)
(*              flash erase or program, flipped flash byte) per behaviour  *)
(*   MaxUpdates number of start_update calls that get as far as their      *)
(*              first metadata write, per behaviour                        *)
(***************************************************************************)
BankPages == 2
MaxFaults == 1
MaxUpdates == 1

BANK_A_SIZE == BankPages * FLASH_PAGE_SIZE

Banks == {"A", "B"}
BANK_UNKNOWN == "UNKNOWN"

\* The firmware_bank_t whose value is 0: what static zero-initialisation and
\* memset leave in update_context.target_bank (BANK_A, the first enumerator).
BANK_ZERO == "A"
BankValues == Banks \cup {BANK_UNKNOWN}

bank_get_opposite(bank) ==
    IF bank = "A" THEN "B" ELSE IF bank = "B" THEN "A" ELSE BANK_UNKNOWN

\* Offset of a bank inside the modelled flash array (bank A first, bank B next).
bank_get_offset(bank) == IF bank = "A" THEN 0 ELSE BANK_A_SIZE

bank_get_size(bank) == BANK_A_SIZE

FLASH_PAGE_ALIGN(size) ==
    ((size + FLASH_PAGE_SIZE - 1) \div FLASH_PAGE_SIZE) * FLASH_PAGE_SIZE

(***************************************************************************)
(* CRC32 (crc32.c).  The table-driven byte loop with its initial value and *)
(* final complement is kept; the 32-bit register is narrowed to a 16-bit   *)
(* residue so that the checker's integers can hold it.                     *)
(***************************************************************************)
CrcRange == 65536 - 15
CRC32_INIT == CrcRange - 1

crc32_step(crc, byte) == (crc * 31 + byte + 1) % CrcRange

\* The byte loop `for (i = 0; i < length; i++)` over data[lo..hi], split in
\* halves so that the evaluation nests only logarithmically deep (the
\* register of the left half is computed before the right half starts).
RECURSIVE crc32_loop(_, _, _, _)
crc32_loop(crc, data, lo, hi) ==
    IF lo > hi THEN crc
    ELSE IF lo = hi THEN crc32_step(crc, data[lo])
    ELSE LET mid == (lo + hi) \div 2
             left == crc32_loop(crc, data, lo, mid)
         IN  IF left < 0 THEN left ELSE crc32_loop(left, data, mid + 1, hi)

\* crc32_update: absorb `data` into the running register.
crc32_update(crc, data) == crc32_loop(crc, data, 1, Len(data))

\* crc32_finalize: final XOR with 0xFFFFFFFF (complement of the register).
crc32_finalize(crc) == (CrcRange - 1) - crc

crc32_calculate(data) == crc32_finalize(crc32_update(CRC32_INIT, data))

(***************************************************************************)
(* State.                                                                  *)
(*   flash      the two firmware banks, byte by byte (bank A, then bank B) *)
(*   meta       the firmware metadata record as metadata_read returns it   *)
(*   pc         position of the device: the bootloader's main() at         *)
(*              "bl_start", "bl_validate", "bl_jump"; the application       *)
(*              ("app"); the bootloader's panic_blink loop ("halt")        *)
(*   running    the bank whose code executes (what                         *)
(*              firmware_manager_get_current_bank finds from the PC)       *)
(*   ctx        update_context of firmware_manager.c                       *)
(*   faults     number of faults injected so far                           *)
(*   updates    number of start_update calls accepted so far               *)
(*   last       the last call made: its name, its result, whether one of   *)
(*              its metadata writes failed, and whether the calls before   *)
(*              it were the ones a claim is about (history)                *)
(*   bs         metadata seen at the start of the running boot (history)   *)
(*   streak     bank of the last jump and the number of consecutive jumps  *)
(*              into it without a confirm_boot in between (history)        *)
(*   fin        target bank and active bank of the last finalize_update    *)
(*              that returned success (history)                            *)
(*   store      the two metadata sectors and the write in progress on      *)
(*              them (used by MetaSpec; constant under Spec)               *)
(*   wifi_flash the first page of the flash sector of the WiFi             *)
(*              configuration (wireless.c), byte by byte                   *)
(*   home       the WiFi configuration in memory: home_ssid,               *)
(*              home_password, home_auth_method, home_timeout_ms,          *)
(*              home_wifi_enabled                                          *)
(*   ota        the statics of the simple OTA module (ota.c)               *)
(***************************************************************************)
VARIABLES flash, meta, pc, running, ctx, faults, updates, last, bs, streak, fin,
          store,
          g_session, g_tuning, g_history, profiles,
          charge_mode_config, control, encoder_event_queue, motors, leds,
          obs, budget,
          wifi_flash, home, ota

mainVars == <<flash, meta, pc, running, ctx, faults, updates, last, bs, streak, fin>>

\* The PID tuner (ai_tuning.c) and the gains of the powder profiles.
tuneVars == <<g_session, g_tuning, g_history, profiles>>

\* Charge mode (charge_mode.cpp): the shared configuration, the Control task,
\* the input queue, the two trickler motors and the LEDs.
chargeVars == <<charge_mode_config, control, encoder_event_queue, motors, leds>>

\* Everything outside the firmware updater (constant under Spec and MetaSpec).
appVars == <<tuneVars, chargeVars, obs, budget>>

\* The configuration regions outside the firmware banks (constant under the
\* specifications of the updater, the tuner and charge mode).
sideVars == <<wifi_flash, home, ota>>

vars == <<mainVars, store, sideVars, appVars>>

(***************************************************************************)
(* Charge mode and the PID tuner: constants and the state at power-on.     *)
(*                                                                         *)
(* Gains are kept in thousandths (a gain of 1.0 is 1000), weights in       *)
(* hundredths of a grain, times in milliseconds, motor speeds in units of  *)
(* 1e-5 revolutions per second (the product of a gain and a weight).       *)
(*   g_session   the tuning session of ai_tuning.c; `drops` is the set of  *)
(*               indices of its telemetry array that hold a record         *)
(*   g_tuning    the file-static tuning state of ai_tuning.c: the adaptive *)
(*               phases and step sizes, the refinement counter and the two *)
(*               Gaussian-process models                                   *)
(*   g_history   the history of charges made outside a tuning session      *)
(*   profiles    gains of the powder profiles                              *)
(*   charge_mode_config  phase, target weight and thresholds               *)
(*   control     the Control (menu) task: its position in                  *)
(*               charge_mode_menu and the locals of the running handler    *)
(*   encoder_event_queue  the input queue                                  *)
(*   motors      last commanded speed of each motor, and the enable flag   *)
(*   leds        colour the LEDs were last set to                          *)
(*   obs         what the last step did (history)                          *)
(*   budget      numbers of inputs taken so far                            *)
(***************************************************************************)
COARSE_KP_MIN == 0
COARSE_KP_MAX == 1000
COARSE_KD_MIN == 0
COARSE_KD_MAX == 1000
FINE_KP_MIN == 0
FINE_KP_MAX == 10000
FINE_KD_MIN == 0
FINE_KD_MAX == 10000

GP_REFINE_DROPS == 5
COARSE_MIN_STEP == 20
FINE_MIN_STEP == 200
GP_MAX_POINTS == 20
AI_TUNING_HISTORY_SIZE == 10

\* Capacity of g_session.drops, and the cap ai_tuning_start sets.
SESSION_DROPS_SIZE == 50
MAX_DROPS_ALLOWED == 30
TOTAL_DROPS_TARGET == 15

\* Number of powder profiles in the model (profile_select knows 8).
NProfiles == 2
ProfileIdx == 0..(NProfiles - 1)
NO_PROFILE == -1

Gains(ckp, ckd, fkp, fkd) ==
    [coarse_kp |-> ckp, coarse_kd |-> ckd, fine_kp |-> fkp, fine_kd |-> fkd]

ZeroGains == Gains(0, 0, 0, 0)

\* memset(&g_session, 0, ...) with state AI_TUNING_IDLE (ai_tuning_init).
SessionAtReset ==
    [state |-> "IDLE", target_profile |-> NO_PROFILE,
     drops_completed |-> 0, total_drops_target |-> 0, max_drops_allowed |-> 0,
     phase2_start_idx |-> 0, drops |-> {},
     best |-> ZeroGains, recommended |-> ZeroGains, error_message |-> FALSE]

\* gp_init / gp_reset: no observation.  Of the observations the model keeps
\* their number and the first one with the highest score, which is what
\* gp_get_best_observed returns.
GpEmpty(lo, hi) ==
    [param_min |-> lo, param_max |-> hi, n_obs |-> 0,
     best_kp |-> 0, best_kd |-> 0, best_score |-> 0]

\* Zero-initialised statics, and the time targets ai_tuning_init puts into
\* g_config.
TuningAtReset ==
    [coarse_tuning_phase |-> "ADAPTIVE_KP", fine_tuning_phase |-> "ADAPTIVE_KP",
     coarse_kp_step |-> 0, coarse_kd_step |-> 0,
     fine_kp_step |-> 0, fine_kd_step |-> 0,
     coarse_had_overthrow |-> FALSE, fine_had_overthrow |-> FALSE,
     gp_refine_drops |-> 0,
     gp_coarse |-> GpEmpty(0, 0), gp_fine |-> GpEmpty(0, 0),
     target_coarse_time_ms |-> 10000, target_total_time_ms |-> 15000]

\* load_history_from_eeprom on a fresh EEPROM: memset(&g_history, 0, ...).
HistoryAtReset ==
    [count |-> 0, next_idx |-> 0, drops |-> <<>>,
     has_suggestions |-> FALSE, suggested |-> ZeroGains]

\* Gains a profile can hold: input_validation.h accepts kp and kd up to
\* PID_MAX_KP = PID_MAX_KD = 100.
LowGains == Gains(500, 100, 2000, 500)
HighGains == Gains(2000, 1500, 20000, 12000)

\* charge_mode_config_init and default_charge_mode_data: phase EXIT, target
\* weight 0, coarse_stop_threshold 5, fine_stop_threshold 0.03, pre-charge
\* off, time targets of 10 s and 15 s.
ChargeConfigAtReset ==
    [charge_mode_state |-> "EXIT", target_charge_weight |-> 0,
     coarse_stop_threshold |-> 500, fine_stop_threshold |-> 3,
     precharge_enable |-> FALSE, precharge_speed_rps |-> 200000,
     coarse_time_target_ms |-> 10000, total_time_target_ms |-> 15000]

\* `gate` is servo_gate.gate_state: GATE_DISABLED when no servo gate is fitted.
MotorsAtReset ==
    [coarse |-> 0, fine |-> 0, enabled |-> FALSE, gate |-> "GATE_DISABLED"]

\* The Control task before charge mode is entered: in the menu.
\* `ret` tells how the last phase handler returned; the other fields are the
\* locals of charge_mode_wait_for_complete (0 outside it).
ControlAtReset ==
    [pc |-> "menu", ret |-> "none", profile |-> 0,
     should_coarse_trickler_move |-> FALSE,
     integral |-> 0, last_error |-> 0,
     precharge_integral |-> 0, precharge_last_error |-> 0,
     tuned |-> [kp |-> 0, kd |-> 0], samples |-> 0,
     min_speed |-> [coarse |-> 0, fine |-> 0],
     max_speed |-> [coarse |-> 0, fine |-> 0], used |-> ZeroGains,
     initial_motor_mode |-> "NORMAL",
     charge_start_tick |-> 0, coarse_end_tick |-> 0, fine_start_tick |-> 0]

ObsNone == [task |-> "none", step |-> "none"]

BudgetAtReset == [rest |-> 0, press |-> 0, drops |-> 0, charges |-> 0, sessions |-> 0]

\* A byte of erased flash.
ERASED == 255

(***************************************************************************)
(* The WiFi configuration region (wireless.c): wifi_credentials_t as the   *)
(* compiler lays it out, little-endian, 120 bytes:                         *)
(*   magic 0-3, home_ssid 4-36, home_password 37-100, padding 101-103,     *)
(*   auth_method 104-107, timeout_ms 108-111, wifi_enabled 112,            *)
(*   padding 113-115, checksum 116-119.                                    *)
(***************************************************************************)
CONFIG_MAGIC == 1464420937
SSID_SIZE == 33
PASSWORD_SIZE == 64

Zeros(n) == [i \in 1..n |-> 0]

\* A uint32_t is kept as its four bytes in memory, little-endian; le32 gives
\* them for a number below 2^31 and add32 is the addition of uint32_t.
le32(x) == <<x % 256, (x \div 256) % 256, (x \div 65536) % 256, (x \div 16777216) % 256>>

add32(a, b) ==
    LET s1 == a[1] + b[1]
        s2 == a[2] + b[2] + (s1 \div 256)
        s3 == a[3] + b[3] + (s2 \div 256)
        s4 == a[4] + b[4] + (s3 \div 256)
    IN  <<s1 % 256, s2 % 256, s3 % 256, s4 % 256>>

\* The globals of wireless.c as the loader leaves them.
HomeAtReset ==
    [ssid |-> Zeros(SSID_SIZE), password |-> Zeros(PASSWORD_SIZE),
     auth_method |-> le32(2), timeout_ms |-> le32(30000), wifi_enabled |-> TRUE]

\* A sector nothing was written to.
WifiFlashErased == [i \in 1..FLASH_PAGE_SIZE |-> ERASED]

\* The statics of ota.c as the loader and ota_init leave them.
OtaAtReset ==
    [state |-> "IDLE", total_size |-> 0, received_size |-> 0, flash_offset |-> 0,
     write_buffer_pos |-> 0, verify_checksum |-> FALSE, last_error |-> "OTA_OK"]

SideAtReset ==
    /\ wifi_flash = WifiFlashErased
    /\ home = HomeAtReset
    /\ ota = OtaAtReset

\* Charge mode and the tuner at rest; this is how the firmware-update
\* specifications hold them.
AppAtReset ==
    /\ g_session = SessionAtReset
    /\ g_tuning = TuningAtReset
    /\ g_history = HistoryAtReset
    /\ profiles = [p \in ProfileIdx |-> LowGains]
    /\ charge_mode_config = ChargeConfigAtReset
    /\ control = ControlAtReset
    /\ encoder_event_queue = <<>>
    /\ motors = MotorsAtReset
    /\ leds = "default"
    /\ obs = ObsNone
    /\ budget = BudgetAtReset

FlashSize == 2 * BANK_A_SIZE

(***************************************************************************)
(* The flash array is kept run-length encoded in the state: a sequence of  *)
(* runs [n, b], n bytes of value b, neighbouring runs holding different    *)
(* values.  The operators below read and replace byte ranges of it.        *)
(***************************************************************************)
\* The runs of the first n bytes.
RECURSIVE RunsTake(_, _)
RunsTake(runs, n) ==
    IF n = 0 \/ runs = <<>> THEN <<>>
    ELSE IF Head(runs).n <= n
    THEN <<Head(runs)>> \o RunsTake(Tail(runs), n - Head(runs).n)
    ELSE <<[n |-> n, b |-> Head(runs).b]>>

\* The runs of all bytes after the first n.
RECURSIVE RunsDrop(_, _)
RunsDrop(runs, n) ==
    IF n = 0 \/ runs = <<>> THEN runs
    ELSE IF Head(runs).n <= n
    THEN RunsDrop(Tail(runs), n - Head(runs).n)
    ELSE <<[n |-> Head(runs).n - n, b |-> Head(runs).b]>> \o Tail(runs)

\* Join neighbouring runs of the same value.
RECURSIVE RunsMerge(_)
RunsMerge(runs) ==
    IF Len(runs) < 2 THEN runs
    ELSE IF runs[1].b = runs[2].b
    THEN RunsMerge(<<[n |-> runs[1].n + runs[2].n, b |-> runs[1].b]>> \o Tail(Tail(runs)))
    ELSE <<runs[1]>> \o RunsMerge(Tail(runs))

\* The runs of a byte sequence.
RECURSIVE RunsFrom(_, _, _)
RunsFrom(bytes, starts, i) ==
    IF i > Len(bytes) THEN <<>>
    ELSE LET later == {j \in starts : j > i}
             next == IF later = {} THEN Len(bytes) + 1
                     ELSE CHOOSE j \in later : \A k \in later : j <= k
         IN  <<[n |-> next - i, b |-> bytes[i]]>> \o RunsFrom(bytes, starts, next)

RunsEncode(bytes) ==
    RunsFrom(bytes, {i \in 1..Len(bytes) : i = 1 \/ bytes[i] # bytes[i - 1]}, 1)

\* The bytes of a sequence of runs.
RECURSIVE RunsDecode(_)
RunsDecode(runs) ==
    IF runs = <<>> THEN <<>>
    ELSE [i \in 1..Head(runs).n |-> Head(runs).b] \o RunsDecode(Tail(runs))

FlashRead(fl, i) == Head(RunsDrop(fl, i - 1)).b

\* The first `size` bytes of a bank.
BankBytes(fl, bank, size) ==
    RunsDecode(RunsTake(RunsDrop(fl, bank_get_offset(bank)), size))

(***************************************************************************)
(* flash_ops (modelled from the specification).                            *)
(***************************************************************************)
\* flash_write: program `data` at absolute offset `offset`.
flash_write(fl, offset, data) ==
    RunsMerge(RunsTake(fl, offset) \o RunsEncode(data)
              \o RunsDrop(fl, offset + Len(data)))

\* flash_erase_bank: every byte of the bank reads 0xFF afterwards.
flash_erase_bank(fl, bank) ==
    RunsMerge(RunsTake(fl, bank_get_offset(bank))
              \o <<[n |-> bank_get_size(bank), b |-> ERASED]>>
              \o RunsDrop(fl, bank_get_offset(bank) + bank_get_size(bank)))

\* flash_validate_firmware: CRC32 over the first `size` bytes of the bank
\* equals `expected_crc32`.
flash_validate_firmware(fl, bank, expected_crc32, size) ==
    crc32_calculate(BankBytes(fl, bank, size)) = expected_crc32

(***************************************************************************)
(* metadata (modelled from the specification).  Each operation reads the   *)
(* record, changes it and writes it back; the write is abstracted to an    *)
(* atomic replacement that may fail and then leaves the record unchanged   *)
(* (see the MetaStore specification below for the two-copy scheme).        *)
(***************************************************************************)
metadata_set_update_in_progress(m, bank) == [m EXCEPT !.update_in_progress = bank]

metadata_clear_update_in_progress(m) == [m EXCEPT !.update_in_progress = "NONE"]

metadata_mark_bank_valid(m, bank, crc32, size) ==
    [m EXCEPT !.valid[bank] = TRUE, !.crc32[bank] = crc32,
              !.size[bank] = size, !.boot_count[bank] = 0]

metadata_mark_bank_invalid(m, bank) == [m EXCEPT !.valid[bank] = FALSE]

metadata_set_active_bank(m, bank) == [m EXCEPT !.active_bank = bank]

\* metadata_trigger_rollback succeeds only if the opposite bank is marked valid.
rollback_possible(m) == m.valid[bank_get_opposite(m.active_bank)]

metadata_trigger_rollback(m) ==
    [m EXCEPT !.active_bank = bank_get_opposite(m.active_bank),
              !.boot_count[bank_get_opposite(m.active_bank)] = 0,
              !.rollback_occurred = TRUE]

metadata_increment_boot_count(m) ==
    [m EXCEPT !.boot_count[m.active_bank] = m.boot_count[m.active_bank] + 1]

metadata_reset_boot_count(m) == [m EXCEPT !.boot_count[m.active_bank] = 0]

metadata_clear_rollback_flag(m) == [m EXCEPT !.rollback_occurred = FALSE]

\* Outcomes of one metadata write or one flash erase/program: it can fail
\* while the fault budget lasts.
NFail(ok) == IF ok THEN 0 ELSE 1
Outcomes == IF faults < MaxFaults THEN {TRUE, FALSE} ELSE {TRUE}
Within(n) == faults + n <= MaxFaults

(***************************************************************************)
(* Bank validation of the bootloader.                                      *)
(***************************************************************************)
\* A validation that looks at the valid flag only.
validate_firmware_bank_flag_only(bank, m, fl) ==
    IF bank \notin Banks THEN FALSE ELSE m.valid[bank]

\* A validation without the first-boot special case.
validate_firmware_bank_no_first_boot(bank, m, fl) ==
    IF bank \notin Banks THEN FALSE
    ELSE IF ~m.valid[bank] THEN FALSE
    ELSE IF m.size[bank] = 0 \/ m.size[bank] > bank_get_size(bank) THEN FALSE
    ELSE flash_validate_firmware(fl, bank, m.crc32[bank], m.size[bank])

\* validate_firmware_bank (bootloader.c, lines 83-136)
validate_firmware_bank(bank, m, fl) ==
    IF bank \notin Banks THEN FALSE
    ELSE IF ~m.valid[bank] THEN FALSE
    ELSE IF m.size[bank] = 0 /\ m.crc32[bank] = 0 THEN TRUE
    ELSE IF m.size[bank] = 0 \/ m.size[bank] > bank_get_size(bank) THEN FALSE
    ELSE flash_validate_firmware(fl, bank, m.crc32[bank], m.size[bank])

(***************************************************************************)
(* The metadata store (modelled from the specification, section 4.5,       *)
(* "Metadata integrity").  Two flash sectors each hold one copy of the     *)
(* record: its contents, its sequence number and its self-CRC, three words *)
(* here.  A write erases the copy that the read does not select, word by   *)
(* word, then programs the new record with the next sequence number, word  *)
(* by word; a reset can fall between any two words.                        *)
(***************************************************************************)
MaxSeq == 4

MetaPayloads == 0..2

meta_self_crc(payload, seq) == (payload * 7 + seq * 13 + 5) % 251

MetaRecord(payload, seq) == <<payload, seq, meta_self_crc(payload, seq)>>

ErasedSector == <<ERASED, ERASED, ERASED>>

sector_valid(sec) == sec[3] = meta_self_crc(sec[1], sec[2])

\* Which copy a read returns: the valid one with the higher sequence
\* number; 0 when neither copy is valid.
metadata_select(copies) ==
    IF sector_valid(copies[1]) /\ sector_valid(copies[2])
    THEN IF copies[2][2] > copies[1][2] THEN 2 ELSE 1
    ELSE IF sector_valid(copies[1]) THEN 1
    ELSE IF sector_valid(copies[2]) THEN 2
    ELSE 0

\* A write that goes to the copy the read selects.
metadata_write_target_selected(selected) == selected

\* Which copy a write goes to: the one the read does not select.
metadata_write_target(selected) == 3 - selected

\* The store after metadata_init has written the default record.
StoreInit ==
    [copies |-> <<MetaRecord(0, 1), ErasedSector>>,
     target |-> 0, phase |-> "idle", done |-> 0,
     pending |-> MetaRecord(0, 1),
     old |-> MetaRecord(0, 1), new |-> MetaRecord(0, 1),
     seen |-> [status |-> "none", record |-> <<>>]]

(***************************************************************************)
(* Records of the history variables.                                       *)
(***************************************************************************)
Call(op, ret, mfail, ffail, pre) ==
    [op |-> op, ret |-> ret, mfail |-> mfail, ffail |-> ffail, pre |-> pre]

\* The calls since the last accepted start_update are write_chunk calls only.
InUpload ==
    IF \/ last.op = "start" /\ last.ret
       \/ last.op = "write_chunk" /\ last.pre = "upload"
    THEN "upload" ELSE "none"

\* The last call was a finalize_update that returned success.
AfterFinalize == IF last.op = "finalize" /\ last.ret THEN "finalized" ELSE "none"

\* No call was made since the device restarted right after such a finalize.
SinceFinalize ==
    IF last.op \in {"reset", "boot", "jump"} THEN last.pre ELSE "none"

\* What the bootloader finds when it starts: the active bank, its boot
\* count; mfail becomes TRUE when a metadata write of this boot fails.
BootSnapshot(m) ==
    [active |-> m.active_bank,
     count |-> m.boot_count[m.active_bank],
     mfail |-> FALSE]

NoSnapshot == [active |-> BANK_UNKNOWN, count |-> 0, mfail |-> FALSE]

\* update_context before firmware_manager_init has run (zero-initialised RAM).
ContextAtReset ==
    [initialized |-> FALSE, state |-> "IDLE", target_bank |-> BANK_ZERO,
     expected_size |-> 0, bytes_written |-> 0, current_offset |-> 0,
     crc |-> 0]

\* The device restarts: the bootloader runs from its first instruction.
Restart(m) ==
    /\ pc' = "bl_start"
    /\ running' = BANK_UNKNOWN
    /\ ctx' = ContextAtReset
    /\ bs' = BootSnapshot(m)

(***************************************************************************)
(* Initial state: a freshly flashed device.  Bank A holds the factory      *)
(* image, the metadata holds the factory defaults (bank A valid with       *)
(* size = 0 and crc32 = 0), bank B is erased.                              *)
(***************************************************************************)
FactoryMeta ==
    [active_bank |-> "A",
     valid |-> [b \in Banks |-> b = "A"],
     crc32 |-> [b \in Banks |-> 0],
     size |-> [b \in Banks |-> 0],
     boot_count |-> [b \in Banks |-> 0],
     update_in_progress |-> "NONE",
     rollback_occurred |-> FALSE]

ErasedFlash == <<[n |-> FlashSize, b |-> ERASED]>>

FactoryFlash ==
    flash_write(ErasedFlash, bank_get_offset("A"), [i \in 1..FLASH_PAGE_SIZE |-> 66])

(***************************************************************************)
(* A device in service: both banks hold an image installed by earlier      *)
(* updates (one to bank B, then one to bank A, each activated and          *)
(* confirmed), bank A is active.                                           *)
(***************************************************************************)
InstalledSize == FLASH_PAGE_SIZE + 100

InstalledImage == [i \in 1..InstalledSize |-> 77]

InServiceMeta ==
    [active_bank |-> "A",
     valid |-> [b \in Banks |-> TRUE],
     crc32 |-> [b \in Banks |-> crc32_calculate(InstalledImage)],
     size |-> [b \in Banks |-> InstalledSize],
     boot_count |-> [b \in Banks |-> 0],
     update_in_progress |-> "NONE",
     rollback_occurred |-> FALSE]

InServiceFlash ==
    flash_write(flash_write(ErasedFlash, bank_get_offset("A"), InstalledImage),
                bank_get_offset("B"), InstalledImage)

PowerOn(m, fl) ==
    /\ flash = fl
    /\ meta = m
    /\ pc = "bl_start"
    /\ running = BANK_UNKNOWN
    /\ ctx = ContextAtReset
    /\ faults = 0
    /\ updates = 0
    /\ last = Call("power_on", TRUE, FALSE, FALSE, "none")
    /\ bs = BootSnapshot(m)
    /\ streak = [bank |-> BANK_UNKNOWN, n |-> 0]
    /\ fin = [target |-> BANK_UNKNOWN, active |-> BANK_UNKNOWN]

Init ==
    /\ \/ PowerOn(FactoryMeta, FactoryFlash)
       \/ PowerOn(InServiceMeta, InServiceFlash)
    /\ store = StoreInit
    /\ SideAtReset
    /\ AppAtReset

(***************************************************************************)
(* Bootloader main(), in three steps.                                      *)
(***************************************************************************)
\* A trigger that waits for one boot more.
boot_count_exceeded_late(m) == m.boot_count[m.active_bank] > MAX_BOOT_ATTEMPTS

\* Line 225: the automatic rollback trigger.
boot_count_exceeded(m) == m.boot_count[m.active_bank] >= MAX_BOOT_ATTEMPTS

\* Lines 214-241: if the active bank's boot count reached MAX_BOOT_ATTEMPTS,
\* trigger the rollback; panic if it fails.
BootCheckCount ==
    /\ pc = "bl_start"
    /\ IF boot_count_exceeded(meta)
       THEN IF ~rollback_possible(meta)
            THEN /\ pc' = "halt"
                 /\ UNCHANGED <<meta, faults, bs>>
            ELSE \E ok \in Outcomes :
                 /\ faults' = faults + NFail(ok)
                 /\ meta' = IF ok THEN metadata_trigger_rollback(meta) ELSE meta
                 /\ pc' = IF ok THEN "bl_validate" ELSE "halt"
                 /\ bs' = [bs EXCEPT !.mfail = @ \/ ~ok]
       ELSE /\ pc' = "bl_validate"
            /\ UNCHANGED <<meta, faults, bs>>
    /\ last' = Call("boot", TRUE, FALSE, FALSE, SinceFinalize)
    /\ UNCHANGED <<flash, running, ctx, streak, fin, updates, store, sideVars, appVars>>

\* Lines 243-269: validate the active bank; if it fails, roll back to the
\* other bank and validate that one; panic if that fails too.
BootValidate ==
    /\ pc = "bl_validate"
    /\ IF validate_firmware_bank(meta.active_bank, meta, flash)
       THEN /\ pc' = "bl_jump"
            /\ UNCHANGED <<meta, faults, bs>>
       ELSE IF ~rollback_possible(meta)
            THEN /\ pc' = "halt"
                 /\ UNCHANGED <<meta, faults, bs>>
            ELSE \E ok \in Outcomes :
                 /\ faults' = faults + NFail(ok)
                 /\ meta' = IF ok THEN metadata_trigger_rollback(meta) ELSE meta
                 /\ bs' = [bs EXCEPT !.mfail = @ \/ ~ok]
                 /\ pc' = IF ok /\ validate_firmware_bank(meta'.active_bank, meta', flash)
                          THEN "bl_jump" ELSE "halt"
    /\ UNCHANGED <<flash, running, ctx, last, streak, fin, updates, store, sideVars, appVars>>

\* Lines 271-287: increment the boot counter (a failure is only logged) and
\* jump into the bank.
BootJump ==
    /\ pc = "bl_jump"
    /\ \E ok \in Outcomes :
        /\ faults' = faults + NFail(ok)
        /\ meta' = IF ok THEN metadata_increment_boot_count(meta) ELSE meta
        /\ bs' = [bs EXCEPT !.mfail = @ \/ ~ok]
    /\ pc' = "app"
    /\ running' = meta.active_bank
    /\ streak' = [bank |-> meta.active_bank,
                  n |-> IF streak.bank = meta.active_bank
                        THEN IF streak.n > MAX_BOOT_ATTEMPTS THEN streak.n ELSE streak.n + 1
                        ELSE 1]
    /\ last' = Call("jump", TRUE, FALSE, FALSE, SinceFinalize)
    /\ UNCHANGED <<flash, ctx, fin, updates, store, sideVars, appVars>>

(***************************************************************************)
(* Firmware manager (application side).                                    *)
(***************************************************************************)
set_error(c) == [c EXCEPT !.state = "ERROR"]

\* firmware_manager_init: reset the context and clear an update flag left
\* by an interrupted update (the result of that write is not looked at).
firmware_manager_init ==
    /\ pc = "app"
    /\ ~ctx.initialized
    /\ ctx' = [ContextAtReset EXCEPT !.initialized = TRUE]
    /\ IF meta.update_in_progress # "NONE"
       THEN \E ok \in Outcomes :
            /\ faults' = faults + NFail(ok)
            /\ meta' = IF ok THEN metadata_clear_update_in_progress(meta) ELSE meta
            /\ last' = Call("init", TRUE, ~ok, FALSE, SinceFinalize)
       ELSE /\ UNCHANGED <<meta, faults>>
            /\ last' = Call("init", TRUE, FALSE, FALSE, SinceFinalize)
    /\ bs' = NoSnapshot
    /\ UNCHANGED <<flash, pc, running, streak, fin, updates, store, sideVars, appVars>>

\* firmware_manager_confirm_boot
firmware_manager_confirm_boot ==
    /\ pc = "app"
    /\ ctx.initialized
    /\ \E ok \in Outcomes :
        /\ faults' = faults + NFail(ok)
        /\ meta' = IF ok THEN metadata_reset_boot_count(meta) ELSE meta
        /\ last' = Call("confirm_boot", ok, ~ok, FALSE, "none")
    /\ streak' = [streak EXCEPT !.n = 0]
    /\ UNCHANGED <<flash, pc, running, ctx, bs, fin, updates, store, sideVars, appVars>>

\* firmware_manager_clear_rollback_flag
firmware_manager_clear_rollback_flag ==
    /\ pc = "app"
    /\ ctx.initialized
    /\ meta.rollback_occurred
    /\ \E ok \in Outcomes :
        /\ faults' = faults + NFail(ok)
        /\ meta' = IF ok THEN metadata_clear_rollback_flag(meta) ELSE meta
        /\ last' = Call("clear_rollback_flag", ok, ~ok, FALSE, "none")
    /\ UNCHANGED <<flash, pc, running, ctx, bs, streak, fin, updates, store, sideVars, appVars>>

\* Sizes a caller asks for: none, a page and a part, more than a bank holds.
StartSizes == {0, FLASH_PAGE_SIZE + 100, BANK_A_SIZE + 1}

\* firmware_manager_start_update(expected_size, version)
start_update(expected_size) ==
    /\ pc = "app"
    /\ IF ~ctx.initialized
       THEN /\ last' = Call("start", FALSE, FALSE, FALSE, "none")
            /\ UNCHANGED <<flash, meta, ctx, faults, updates>>
       ELSE IF ctx.state # "IDLE"
       THEN /\ ctx' = set_error(ctx)
            /\ last' = Call("start", FALSE, FALSE, FALSE, "none")
            /\ UNCHANGED <<flash, meta, faults, updates>>
       ELSE IF expected_size = 0 \/ expected_size > BANK_A_SIZE
       THEN /\ ctx' = set_error(ctx)
            /\ last' = Call("start", FALSE, FALSE, FALSE, "none")
            /\ UNCHANGED <<flash, meta, faults, updates>>
       ELSE LET target == bank_get_opposite(running) IN
            IF target = BANK_UNKNOWN
            THEN /\ ctx' = set_error([ctx EXCEPT !.target_bank = target])
                 /\ last' = Call("start", FALSE, FALSE, FALSE, "none")
                 /\ UNCHANGED <<flash, meta, faults, updates>>
            ELSE \E okSet \in Outcomes, okErase \in Outcomes, okClear \in Outcomes :
                 /\ updates < MaxUpdates
                 /\ updates' = updates + 1
                 /\ LET prepared == [ctx EXCEPT !.target_bank = target,
                                                !.expected_size = expected_size,
                                                !.bytes_written = 0,
                                                !.current_offset = bank_get_offset(target),
                                                !.crc = CRC32_INIT]
                    IN
                    IF ~okSet
                    THEN \* metadata_set_update_in_progress failed
                         /\ okErase /\ okClear
                         /\ faults' = faults + 1
                         /\ ctx' = set_error([ctx EXCEPT !.target_bank = target])
                         /\ last' = Call("start", FALSE, TRUE, FALSE, "none")
                         /\ UNCHANGED <<flash, meta>>
                    ELSE IF ~okErase
                    THEN \* flash_erase_bank failed: some leading pages are erased
                         /\ Within(1 + NFail(okClear))
                         /\ faults' = faults + 1 + NFail(okClear)
                         /\ \E done \in 0..(BankPages - 1) :
                               flash' = flash_write(flash, bank_get_offset(target),
                                           [i \in 1..(done * FLASH_PAGE_SIZE) |-> ERASED])
                         /\ meta' = IF okClear
                                    THEN metadata_clear_update_in_progress(
                                             metadata_set_update_in_progress(meta, target))
                                    ELSE metadata_set_update_in_progress(meta, target)
                         /\ ctx' = [prepared EXCEPT !.state = "IDLE"]
                         /\ last' = Call("start", FALSE, ~okClear, TRUE, "none")
                    ELSE /\ okClear
                         /\ faults' = faults
                         /\ flash' = flash_erase_bank(flash, target)
                         /\ meta' = metadata_set_update_in_progress(meta, target)
                         /\ ctx' = [prepared EXCEPT !.state = "RECEIVING"]
                         /\ last' = Call("start", TRUE, FALSE, FALSE, "none")
    /\ UNCHANGED <<pc, running, bs, streak, fin>>

\* The call made on its own, by the menu or a test.
firmware_manager_start_update(expected_size) ==
    /\ start_update(expected_size)
    /\ UNCHANGED <<store, sideVars, appVars>>

\* Chunks a caller sends: `size` bytes of one value.
ChunkSizes == {0, 100, FLASH_PAGE_SIZE, FLASH_PAGE_SIZE + 100}
Chunk(size) == [i \in 1..size |-> 90]

\* Checks that let any chunk inside the declared size through.
chunk_rejected_unaligned_ok(c, size) ==
    \/ c.state # "RECEIVING"
    \/ size = 0
    \/ c.bytes_written + size > c.expected_size

\* The checks at the head of firmware_manager_write_chunk (lines 192-221):
\* the update must be receiving, the chunk non-empty, inside the declared
\* size, and a whole number of pages unless it is the last one.
chunk_rejected(c, size) ==
    \/ c.state # "RECEIVING"
    \/ size = 0
    \/ c.bytes_written + size > c.expected_size
    \/ /\ size % FLASH_PAGE_SIZE # 0
       /\ c.bytes_written + size # c.expected_size

\* firmware_manager_write_chunk(data, size).  A final chunk that is not a
\* multiple of the page size is copied into the page-sized write_buffer;
\* if it is longer than a page the copy runs past the buffer (undefined
\* behaviour): the call either goes on as written or the device crashes.
write_chunk(data) ==
    /\ pc = "app"
    /\ ctx.initialized
    /\ LET size == Len(data)
           padded == size % FLASH_PAGE_SIZE # 0
           write_size == IF padded THEN FLASH_PAGE_ALIGN(size) ELSE size
           write_data == IF padded
                         THEN data \o [i \in 1..(write_size - size) |-> ERASED]
                         ELSE data
       IN
       IF chunk_rejected(ctx, size)
       THEN /\ ctx' = set_error(ctx)
            /\ last' = Call("write_chunk", FALSE, FALSE, FALSE, InUpload)
            /\ UNCHANGED <<flash, meta, pc, running, faults, bs>>
       ELSE \/ \E ok \in Outcomes :
               /\ faults' = faults + NFail(ok)
               /\ flash' = IF ok THEN flash_write(flash, ctx.current_offset, write_data)
                           ELSE flash
               /\ ctx' = IF ok
                         THEN [ctx EXCEPT !.crc = crc32_update(ctx.crc, data),
                                          !.bytes_written = @ + size,
                                          !.current_offset = @ + write_size]
                         ELSE set_error([ctx EXCEPT !.crc = crc32_update(ctx.crc, data)])
               /\ last' = Call("write_chunk", ok, FALSE, ~ok, InUpload)
               /\ UNCHANGED <<meta, pc, running, bs>>
            \/ /\ padded /\ size > FLASH_PAGE_SIZE
               /\ Restart(meta)
               /\ last' = Call("crash", FALSE, FALSE, FALSE, "none")
               /\ UNCHANGED <<flash, meta, faults>>
    /\ UNCHANGED <<streak, fin, updates>>

\* The call made on its own.
firmware_manager_write_chunk(data) ==
    /\ write_chunk(data)
    /\ UNCHANGED <<store, sideVars, appVars>>

\* firmware_manager_finalize_update(final_crc32)
finalize_update(final_crc32) ==
    /\ pc = "app"
    /\ ctx.initialized
    /\ IF ctx.state # "RECEIVING" \/ ctx.bytes_written # ctx.expected_size
       THEN /\ ctx' = set_error(ctx)
            /\ last' = Call("finalize", FALSE, FALSE, FALSE, "none")
            /\ UNCHANGED <<meta, faults, fin>>
       ELSE IF \/ crc32_finalize(ctx.crc) # final_crc32
               \/ ~flash_validate_firmware(flash, ctx.target_bank, final_crc32,
                                           ctx.expected_size)
       THEN \E okInvalid \in Outcomes, okClear \in Outcomes :
            LET m1 == IF okInvalid THEN metadata_mark_bank_invalid(meta, ctx.target_bank)
                      ELSE meta
                m2 == IF okClear THEN metadata_clear_update_in_progress(m1) ELSE m1
            IN
            /\ Within(NFail(okInvalid) + NFail(okClear))
            /\ faults' = faults + NFail(okInvalid) + NFail(okClear)
            /\ meta' = m2
            /\ ctx' = [ctx EXCEPT !.state = "IDLE"]
            /\ last' = Call("finalize", FALSE, ~okInvalid \/ ~okClear, FALSE, "none")
            /\ fin' = fin
       ELSE \E okValid \in Outcomes, okClear \in Outcomes :
            LET m1 == metadata_mark_bank_valid(meta, ctx.target_bank, final_crc32,
                                               ctx.expected_size)
                m2 == IF okClear THEN metadata_clear_update_in_progress(m1) ELSE m1
            IN
            IF ~okValid
            THEN /\ okClear
                 /\ faults' = faults + 1
                 /\ meta' = meta
                 /\ ctx' = [set_error(ctx) EXCEPT !.state = "IDLE"]
                 /\ last' = Call("finalize", FALSE, TRUE, FALSE, "none")
                 /\ fin' = fin
            ELSE /\ faults' = faults + NFail(okClear)
                 /\ meta' = m2
                 /\ ctx' = [ctx EXCEPT !.state = "COMPLETE"]
                 /\ last' = Call("finalize", TRUE, ~okClear, FALSE, "none")
                 /\ fin' = [target |-> ctx.target_bank, active |-> meta.active_bank]
    /\ UNCHANGED <<flash, pc, running, bs, streak, updates>>

\* The call made on its own.
firmware_manager_finalize_update(final_crc32) ==
    /\ finalize_update(final_crc32)
    /\ UNCHANGED <<store, sideVars, appVars>>

\* A cancel that only clears the update flag.
cancel_metadata_clear_only(m, c, okInvalid, okClear) ==
    IF okClear THEN metadata_clear_update_in_progress(m) ELSE m

\* Lines 324-332: the metadata writes of a cancel (their results are not
\* looked at).
cancel_metadata(m, c, okInvalid, okClear) ==
    LET m1 == IF c.target_bank # BANK_UNKNOWN /\ okInvalid
              THEN metadata_mark_bank_invalid(m, c.target_bank)
              ELSE m
    IN  IF okClear THEN metadata_clear_update_in_progress(m1) ELSE m1

\* firmware_manager_cancel_update
cancel_update ==
    /\ pc = "app"
    /\ ctx.initialized
    /\ IF ctx.state # "IDLE"
       THEN \E okInvalid \in Outcomes, okClear \in Outcomes :
            /\ ctx.target_bank = BANK_UNKNOWN => okInvalid
            /\ Within(NFail(okInvalid) + NFail(okClear))
            /\ faults' = faults + NFail(okInvalid) + NFail(okClear)
            /\ meta' = cancel_metadata(meta, ctx, okInvalid, okClear)
            /\ last' = Call("cancel", TRUE, ~okInvalid \/ ~okClear, FALSE, InUpload)
       ELSE /\ UNCHANGED <<meta, faults>>
            /\ last' = Call("cancel", TRUE, FALSE, FALSE, InUpload)
    /\ ctx' = [ctx EXCEPT !.state = "IDLE", !.bytes_written = 0]
    /\ UNCHANGED <<flash, pc, running, bs, streak, fin, updates>>

\* The call made on its own.
firmware_manager_cancel_update ==
    /\ cancel_update
    /\ UNCHANGED <<store, sideVars, appVars>>

\* An activation that leaves the active bank as it is.
activate_metadata_unchanged(m, c, ok) == m

\* Line 346: the active bank becomes update_context.target_bank.
activate_metadata(m, c, ok) ==
    IF ok /\ c.target_bank \in Banks
    THEN metadata_set_active_bank(m, c.target_bank)
    ELSE m

\* firmware_manager_activate_and_reboot: set the active bank to the
\* context's target bank, then reboot (also when the write failed).
firmware_manager_activate_and_reboot ==
    /\ pc = "app"
    /\ ctx.initialized
    /\ \E ok \in Outcomes :
        /\ ctx.target_bank \notin Banks => ok
        /\ faults' = faults + NFail(ok)
        /\ meta' = activate_metadata(meta, ctx, ok)
        /\ last' = Call("activate", ok /\ ctx.target_bank \in Banks, ~ok, FALSE,
                        IF last.op = "init" /\ last.pre = "finalized"
                        THEN "rebooted" ELSE AfterFinalize)
    /\ Restart(meta')
    /\ UNCHANGED <<flash, streak, fin, updates, store, sideVars, appVars>>

\* firmware_manager_rollback_and_reboot: returns false without rebooting
\* when the rollback is refused or its write fails.
firmware_manager_rollback_and_reboot ==
    /\ pc = "app"
    /\ ctx.initialized
    /\ IF ~rollback_possible(meta)
       THEN /\ last' = Call("rollback", FALSE, FALSE, FALSE, "none")
            /\ UNCHANGED <<meta, pc, running, ctx, faults, bs>>
       ELSE \E ok \in Outcomes :
            /\ faults' = faults + NFail(ok)
            /\ last' = Call("rollback", ok, ~ok, FALSE, "none")
            /\ IF ok
               THEN /\ meta' = metadata_trigger_rollback(meta)
                    /\ Restart(meta')
               ELSE UNCHANGED <<meta, pc, running, ctx, bs>>
    /\ UNCHANGED <<flash, streak, fin, updates, store, sideVars, appVars>>

(***************************************************************************)
(* Environment.                                                            *)
(***************************************************************************)
\* Power loss or reset between two calls, or while the bootloader runs.
Reset ==
    /\ pc # "bl_start"
    /\ Restart(meta)
    /\ last' = Call("reset", TRUE, FALSE, FALSE, AfterFinalize)
    /\ UNCHANGED <<flash, meta, faults, streak, fin, updates, store, sideVars, appVars>>

\* A byte of a bank's image goes bad while the device is in service.
FlashBitError(bank) ==
    /\ pc = "app"
    /\ faults < MaxFaults
    /\ faults' = faults + 1
    /\ flash' = flash_write(flash, bank_get_offset(bank),
                             <<(FlashRead(flash, bank_get_offset(bank) + 1) + 1) % 256>>)
    /\ last' = Call("bit_error", TRUE, FALSE, FALSE, "none")
    /\ UNCHANGED <<meta, pc, running, ctx, bs, streak, fin, updates, store, sideVars, appVars>>

Next ==
    \/ BootCheckCount
    \/ BootValidate
    \/ BootJump
    \/ firmware_manager_init
    \/ firmware_manager_confirm_boot
    \/ firmware_manager_clear_rollback_flag
    \/ \E size \in StartSizes : firmware_manager_start_update(size)
    \/ \E size \in ChunkSizes : firmware_manager_write_chunk(Chunk(size))
    \/ \E wrong \in {0, 1} :
          firmware_manager_finalize_update((crc32_finalize(ctx.crc) + wrong) % CrcRange)
    \/ firmware_manager_cancel_update
    \/ firmware_manager_activate_and_reboot
    \/ firmware_manager_rollback_and_reboot
    \/ Reset
    \/ \E bank \in Banks : FlashBitError(bank)

Spec == Init /\ [][Next]_vars

(***************************************************************************)
(* The metadata store on its own: writes, a reset between any two flash    *)
(* words, and the read the bootloader starts with.                         *)
(***************************************************************************)
\* A metadata write starts: the copy the read does not select becomes the
\* target, the record to write carries the next sequence number.
metadata_write_begin(payload) ==
    /\ store.target = 0
    /\ LET selected == metadata_select(store.copies) IN
       /\ selected # 0
       /\ store.copies[selected][2] < MaxSeq
       /\ store' = [store EXCEPT
              !.target = metadata_write_target(selected),
              !.phase = "erase",
              !.done = 0,
              !.pending = MetaRecord(payload, store.copies[selected][2] + 1),
              !.old = store.copies[selected],
              !.new = MetaRecord(payload, store.copies[selected][2] + 1),
              !.seen = [status |-> "none", record |-> <<>>]]
    /\ UNCHANGED <<mainVars, sideVars, appVars>>

\* The write goes on by one flash word: the target sector is erased, then the
\* record is programmed.
metadata_write_step ==
    /\ store.target # 0
    /\ LET word == store.done + 1 IN
       IF store.phase = "erase"
       THEN store' = [store EXCEPT
                !.copies[store.target][word] = ERASED,
                !.phase = IF word = 3 THEN "program" ELSE "erase",
                !.done = IF word = 3 THEN 0 ELSE word]
       ELSE store' = [store EXCEPT
                !.copies[store.target][word] = store.pending[word],
                !.phase = IF word = 3 THEN "idle" ELSE "program",
                !.done = IF word = 3 THEN 0 ELSE word,
                !.target = IF word = 3 THEN 0 ELSE @]
    /\ UNCHANGED <<mainVars, sideVars, appVars>>

\* Reset while a metadata write is under way: the write is abandoned.
MetaReset ==
    /\ store.target # 0
    /\ store' = [store EXCEPT !.target = 0, !.phase = "idle", !.done = 0]
    /\ UNCHANGED <<mainVars, sideVars, appVars>>

\* bootloader.c main(), lines 186-197: metadata_init and metadata_read; the
\* bootloader panics when no record can be read.
BootReadMetadata ==
    /\ store.target = 0
    /\ store.seen.status = "none"
    /\ store' = [store EXCEPT !.seen =
                    IF metadata_select(store.copies) = 0
                    THEN [status |-> "panic", record |-> <<>>]
                    ELSE [status |-> "ok",
                          record |-> store.copies[metadata_select(store.copies)]]]
    /\ UNCHANGED <<mainVars, sideVars, appVars>>

MetaInit ==
    /\ PowerOn(FactoryMeta, FactoryFlash)
    /\ store = StoreInit
    /\ SideAtReset
    /\ AppAtReset

MetaNext ==
    \/ \E payload \in MetaPayloads : metadata_write_begin(payload)
    \/ metadata_write_step
    \/ MetaReset
    \/ BootReadMetadata

MetaSpec == MetaInit /\ [][MetaNext]_vars

(***************************************************************************)
(* Properties.                                                             *)
(***************************************************************************)
\* Bank validation as section 4.5 states it: the valid flag is set and the
\* stored size and CRC32 match the bank contents (or both are 0: the image
\* flashed at the factory is trusted).
BankPassesValidation(bank, m, fl) ==
    /\ bank \in Banks
    /\ m.valid[bank]
    /\ \/ m.size[bank] = 0 /\ m.crc32[bank] = 0
       \/ /\ m.size[bank] \in 1..bank_get_size(bank)
          /\ crc32_calculate(BankBytes(fl, bank, m.size[bank])) = m.crc32[bank]

\* C1: when firmware_manager_finalize_update has returned success, the
\* target bank passes bank validation and metadata.update_in_progress is
\* NONE, whatever the outcomes of the individual metadata writes were.
C1_FinalizeSuccess ==
    (last.op = "finalize" /\ last.ret) =>
        /\ BankPassesValidation(ctx.target_bank, meta, flash)
        /\ meta.update_in_progress = "NONE"

\* C2: the bootloader jumps only into a bank that passed validation during
\* that boot (the jump leaves "bl_jump", into the active bank, and that bank
\* passes validation); when the active bank fails validation the bootloader
\* goes on only after swapping to the other bank and finding it valid; when
\* both banks fail it never reaches the jump; once halted it jumps nowhere.
C2_JumpOnlyIntoValidatedBank ==
    [][/\ (pc' = "app" /\ pc # "app") =>
            /\ pc = "bl_jump"
            /\ running' = meta.active_bank
            /\ meta'.active_bank = running'
            /\ BankPassesValidation(running', meta', flash')
       /\ (pc = "bl_validate" /\ pc' = "bl_jump") =>
            /\ BankPassesValidation(meta'.active_bank, meta', flash')
            /\ ~BankPassesValidation(meta.active_bank, meta, flash) =>
                   meta'.active_bank = bank_get_opposite(meta.active_bank)
       /\ (/\ pc = "bl_validate"
           /\ \A bank \in Banks : ~BankPassesValidation(bank, meta, flash)) =>
            pc' \in {"halt", "bl_start"}
       /\ pc = "halt" => pc' \in {"halt", "bl_start"}]_vars

\* A boot in which the active bank failed validation and the bootloader
\* swapped to the other bank, about to jump into it.
C2_Witness ==
    /\ pc = "bl_jump"
    /\ bs.active \in Banks
    /\ bs.count < MAX_BOOT_ATTEMPTS
    /\ meta.active_bank = bank_get_opposite(bs.active)
    /\ ~BankPassesValidation(bs.active, meta, flash)

\* C3: if the bootloader starts with boot_count[active] >= 3 and the
\* opposite bank passes validation, then (its metadata writes succeeding)
\* that boot does not halt, the opposite bank has become the active bank,
\* its boot count was set to 0 (and is 1 once the bootloader has counted the
\* boot and jumped into it), and rollback_occurred is set.
C3_RollbackAtThreeBoots ==
    (/\ bs.active \in Banks
     /\ bs.count >= 3
     /\ ~bs.mfail
     /\ pc \in {"bl_validate", "bl_jump", "halt"} \/ last.op = "jump"
     /\ BankPassesValidation(bank_get_opposite(bs.active), meta, flash))
    =>
    /\ pc # "halt"
    /\ meta.active_bank = bank_get_opposite(bs.active)
    /\ meta.rollback_occurred
    /\ meta.boot_count[meta.active_bank] = IF last.op = "jump" THEN 1 ELSE 0
    /\ last.op = "jump" => running = bank_get_opposite(bs.active)

\* The bootloader found boot_count[active] = 3, rolled back and has jumped
\* into the other bank.
C3_Witness ==
    /\ last.op = "jump"
    /\ bs.active \in Banks
    /\ bs.count >= 3
    /\ ~bs.mfail
    /\ running = bank_get_opposite(bs.active)
    /\ meta.rollback_occurred

\* C4: with no fault injected, the bootloader jumps into the same bank at
\* most MAX_BOOT_ATTEMPTS (3) times in a row without a confirm_boot in
\* between.
C4_AtMostThreeBoots ==
    faults = 0 => streak.n <= 3

\* C5: after a cancel that follows an accepted start_update and nothing but
\* write_chunk calls (accepted or rejected), its metadata writes succeeding,
\* update_in_progress is NONE and the target bank's valid flag is INVALID.
C5_CancelInvalidatesTarget ==
    (last.op = "cancel" /\ last.pre = "upload" /\ ~last.mfail) =>
        /\ meta.update_in_progress = "NONE"
        /\ ~meta.valid[ctx.target_bank]

\* A cancel after a chunk was written into a bank that held a valid image
\* when the update started.
C5_Witness ==
    /\ last.op = "cancel"
    /\ last.pre = "upload"
    /\ ~last.mfail
    /\ meta.size[ctx.target_bank] = InstalledSize
    /\ FlashRead(flash, bank_get_offset(ctx.target_bank) + 1) = 90

\* C6: when start_update returns after a failed flash erase, or write_chunk
\* after a failed flash write (the metadata writes succeeding), the target
\* bank's valid flag is INVALID and update_in_progress is NONE.
C6_FlashFailureInvalidatesTarget ==
    (last.op \in {"start", "write_chunk"} /\ last.ffail /\ ~last.mfail) =>
        /\ ~meta.valid[ctx.target_bank]
        /\ meta.update_in_progress = "NONE"

\* C7: when activate_and_reboot is called right after a finalize_update that
\* returned success (its own metadata write succeeding), the bank that
\* finalize made valid is the active bank and its boot count is 0.
C7_ActivateAfterFinalize ==
    (last.op = "activate" /\ last.pre = "finalized" /\ ~last.mfail) =>
        /\ meta.active_bank = fin.target
        /\ meta.boot_count[fin.target] = 0

\* The device restarts after such an activation, the new bank being another
\* bank than the one that was active.
C7_Witness ==
    /\ last.op = "activate"
    /\ last.pre = "finalized"
    /\ ~last.mfail
    /\ pc = "bl_start"
    /\ fin.target \in Banks
    /\ fin.active # fin.target
    /\ meta.active_bank = fin.target

\* C8: when the device restarts right after a finalize_update that returned
\* success and the application has run firmware_manager_init again, the
\* active bank is the one of before, the target bank is marked valid and
\* update_in_progress is NONE; and an activate_and_reboot called then (its
\* metadata write succeeding) makes the target bank the active bank.
C8_ActivateAfterPowerLoss ==
    /\ (last.op = "init" /\ last.pre = "finalized") =>
        /\ meta.active_bank = fin.active
        /\ meta.valid[fin.target]
        /\ meta.update_in_progress = "NONE"
    /\ (last.op = "activate" /\ last.pre = "rebooted" /\ ~last.mfail) =>
        meta.active_bank = fin.target

\* C9: at every point of a metadata write, and so after a reset at that
\* point, a read finds a record whose self-CRC is valid, which is the
\* complete record of before the write or the complete new record; of two
\* valid copies it takes the one with the higher sequence number; the
\* bootloader's read never fails.
C9_MetadataCrashConsistent ==
    LET selected == metadata_select(store.copies) IN
    /\ selected # 0
    /\ sector_valid(store.copies[selected])
    /\ store.copies[selected] \in {store.old, store.new}
    /\ \A k \in 1..2 :
          sector_valid(store.copies[k]) =>
              store.copies[k][2] <= store.copies[selected][2]
    /\ store.seen.status # "panic"
    /\ store.seen.status = "ok" => store.seen.record \in {store.old, store.new}

\* After a reset that left a half-programmed copy, the bootloader has read
\* the complete record of before the write.
C9_Witness ==
    /\ store.seen.status = "ok"
    /\ store.seen.record = store.old
    /\ store.old # store.new
    /\ \E k \in 1..2 :
          /\ ~sector_valid(store.copies[k])
          /\ store.copies[k] # ErasedSector
          /\ store.copies[k][1] = store.new[1]

\* C10: bytes_written never exceeds expected_size; a chunk is accepted
\* (bytes_written grows by its size) only when the update is RECEIVING, the
\* chunk stays inside expected_size, its size is a multiple of 256 unless it
\* ends exactly at expected_size, and it is written at a 256-byte page
\* boundary inside the target bank.
C10_ChunkAcceptance ==
    /\ ctx.bytes_written <= ctx.expected_size
    /\ [][/\ ctx'.bytes_written <= ctx'.expected_size
          /\ ctx'.bytes_written > ctx.bytes_written =>
                LET size == ctx'.bytes_written - ctx.bytes_written
                    start == ctx.current_offset - bank_get_offset(ctx.target_bank)
                IN  /\ ctx.state = "RECEIVING"
                    /\ ctx.bytes_written + size <= ctx.expected_size
                    /\ size % 256 = 0 \/ ctx.bytes_written + size = ctx.expected_size
                    /\ start % 256 = 0
                    /\ start >= 0
                    /\ start + size <= bank_get_size(ctx.target_bank)]_vars

\* A last chunk that is not a whole number of pages was accepted: it ends
\* the image at expected_size and the write offset has moved on to the next
\* page boundary.
C10_Witness ==
    /\ last.op = "write_chunk"
    /\ last.ret
    /\ ctx.state = "RECEIVING"
    /\ ctx.bytes_written = ctx.expected_size
    /\ ctx.expected_size % 256 # 0
    /\ ctx.current_offset - bank_get_offset(ctx.target_bank) = 2 * 256

(***************************************************************************)
(* The PID tuner (ai_tuning.c) and the Gaussian-process helper             *)
(* (gp_lite.c).  Each function is an operator from the values it reads to  *)
(* the values it leaves; st is the pair of g_session (st.s) and the static *)
(* tuning state (st.t).                                                    *)
(***************************************************************************)
fminf(a, b) == IF a < b THEN a ELSE b
fmaxf(a, b) == IF a > b THEN a ELSE b
fabsf(a) == IF a < 0 THEN 0 - a ELSE a

\* ai_tuning_init: the time targets and the overthrow limit of g_config
\* (6.67 percent, kept in hundredths of a percent).
MAX_OVERTHROW_PERCENT == 667

\* calculate_score, in hundredths of a point.
calculate_score(drop, target_total_time_ms) ==
    LET overthrow_penalty == fminf(fabsf(drop.overthrow_percent) * 5, 5000)
        time_penalty ==
            IF drop.total_time_ms > target_total_time_ms
            THEN fminf(((drop.total_time_ms - target_total_time_ms) * 3000)
                          \div target_total_time_ms, 3000)
            ELSE 0
        bonus ==
            IF /\ drop.total_time_ms < target_total_time_ms
               /\ drop.overthrow_percent <= MAX_OVERTHROW_PERCENT
            THEN ((target_total_time_ms - drop.total_time_ms) * 2000)
                     \div target_total_time_ms
            ELSE 0
    IN  fmaxf(10000 - overthrow_penalty - time_penalty + bonus, 0)

\* gp_add_observation: refused once GP_MAX_POINTS observations are held.
gp_add_observation(gp, kp, kd, score) ==
    IF gp.n_obs >= GP_MAX_POINTS THEN gp
    ELSE IF gp.n_obs = 0 \/ score > gp.best_score
         THEN [gp EXCEPT !.n_obs = @ + 1, !.best_kp = kp, !.best_kd = kd,
                         !.best_score = score]
         ELSE [gp EXCEPT !.n_obs = @ + 1]

\* gp_get_best_observed: the first observation with the highest score, the
\* centre of the parameter range when there is none.
gp_get_best_observed(gp) ==
    IF gp.n_obs = 0
    THEN [kp |-> (gp.param_min + gp.param_max) \div 2,
          kd |-> (gp.param_min + gp.param_max) \div 2]
    ELSE [kp |-> gp.best_kp, kd |-> gp.best_kd]

\* gp_get_next_params: the point of the search grid over
\* [param_min, param_max] x [param_min, param_max] with the highest upper
\* confidence bound.  Which point that is depends on the kernel arithmetic;
\* the model lets it be any of the corners and the centre of the grid.
gp_get_next_params(gp) ==
    LET mid == (gp.param_min + gp.param_max) \div 2 IN
    { [kp |-> gp.param_min, kd |-> gp.param_min],
      [kp |-> mid, kd |-> mid],
      [kp |-> gp.param_max, kd |-> gp.param_min],
      [kp |-> gp.param_max, kd |-> gp.param_max] }

ai_tuning_is_active(s) == s.state = "PHASE_1_COARSE" \/ s.state = "PHASE_2_FINE"

ai_tuning_is_complete(s) == s.state = "COMPLETE"

ai_tuning_get_motor_mode(s) ==
    IF s.state = "PHASE_1_COARSE" THEN "COARSE_ONLY"
    ELSE IF s.state = "PHASE_2_FINE" THEN "FINE_ONLY"
    ELSE "NORMAL"

\* Sum of one field over the history records with an index in S.
RECURSIVE HistorySum(_, _, _)
HistorySum(drops, S, field) ==
    IF S = {} THEN 0
    ELSE LET i == CHOOSE j \in S : TRUE
         IN  drops[i][field] + HistorySum(drops, S \ {i}, field)

\* ai_tuning_calculate_refinements: means of the gains over all records,
\* nudged by the mean overthrow and clamped to the tuning ranges.
ai_tuning_calculate_refinements(h, coarse_threshold, fine_threshold) ==
    IF h.count < 3 THEN [h EXCEPT !.has_suggestions = FALSE]
    ELSE
    LET all == 1..h.count
        avg(field) == HistorySum(h.drops, all, field) \div h.count
        avg_overthrow == avg("overthrow")
        coarse_kd_adj == IF 2 * avg_overthrow > coarse_threshold THEN 10 ELSE 0
        coarse_kp_adj == IF 2 * avg_overthrow > coarse_threshold THEN 0
                         ELSE IF avg_overthrow < 0 - fine_threshold THEN 10 ELSE 0
        fine_kd_adj == IF avg_overthrow > fine_threshold THEN 100 ELSE 0
        fine_kp_adj == IF avg_overthrow > fine_threshold THEN 0
                       ELSE IF avg_overthrow < 0 - fine_threshold THEN 100 ELSE 0
    IN  [h EXCEPT
           !.suggested = Gains(
               fminf(fmaxf(avg("coarse_kp") + coarse_kp_adj, COARSE_KP_MIN), COARSE_KP_MAX),
               fminf(fmaxf(avg("coarse_kd") + coarse_kd_adj, COARSE_KD_MIN), COARSE_KD_MAX),
               fminf(fmaxf(avg("fine_kp") + fine_kp_adj, FINE_KP_MIN), FINE_KP_MAX),
               fminf(fmaxf(avg("fine_kd") + fine_kd_adj, FINE_KD_MIN), FINE_KD_MAX)),
           !.has_suggestions = TRUE]

\* ai_tuning_record_charge: the record goes into the ring at next_idx; the
\* refinements are recomputed once three records are held.
ai_tuning_record_charge(h, profile_idx, gains, overthrow, coarse_threshold, fine_threshold) ==
    LET record == [coarse_kp |-> gains.coarse_kp, coarse_kd |-> gains.coarse_kd,
                   fine_kp |-> gains.fine_kp, fine_kd |-> gains.fine_kd,
                   overthrow |-> overthrow, profile_idx |-> profile_idx]
        slot == h.next_idx + 1
        drops == IF slot <= Len(h.drops)
                 THEN [h.drops EXCEPT ![slot] = record]
                 ELSE Append(h.drops, record)
        h1 == [h EXCEPT
                 !.drops = drops,
                 !.next_idx = (h.next_idx + 1) % AI_TUNING_HISTORY_SIZE,
                 !.count = IF h.count < AI_TUNING_HISTORY_SIZE THEN h.count + 1 ELSE h.count]
    IN  IF h1.count >= 3
        THEN ai_tuning_calculate_refinements(h1, coarse_threshold, fine_threshold)
        ELSE h1

\* The fallback of ai_tuning_get_suggestions left out: a profile with fewer
\* than three records gets no suggestion.
get_suggestions_few_none(h) == [ok |-> FALSE, gains |-> ZeroGains]

\* Lines 882-892: fewer than three records of this profile; the global
\* suggestions are used when there are any.
get_suggestions_few(h) ==
    IF h.has_suggestions
    THEN [ok |-> TRUE, gains |-> h.suggested]
    ELSE [ok |-> FALSE, gains |-> ZeroGains]

\* ai_tuning_get_suggestions
ai_tuning_get_suggestions(h, profile_idx) ==
    IF h.count < 3 THEN [ok |-> FALSE, gains |-> ZeroGains]
    ELSE
    LET sel == {i \in 1..h.count :
                   profile_idx = 255 \/ h.drops[i].profile_idx = profile_idx}
        count == Cardinality(sel)
    IN  IF count < 3 THEN get_suggestions_few(h)
        ELSE [ok |-> TRUE,
              gains |-> Gains(HistorySum(h.drops, sel, "coarse_kp") \div count,
                              HistorySum(h.drops, sel, "coarse_kd") \div count,
                              HistorySum(h.drops, sel, "fine_kp") \div count,
                              HistorySum(h.drops, sel, "fine_kd") \div count)]

\* suggested * 0.7f
SeventyPercent(x) == (x * 7) \div 10

\* ai_tuning_start, lines 188-226: the new session.
ai_tuning_start_session(h, profile_idx) ==
    LET sug == ai_tuning_get_suggestions(h, profile_idx) IN
    [SessionAtReset EXCEPT
        !.state = "PHASE_1_COARSE",
        !.target_profile = profile_idx,
        !.total_drops_target = TOTAL_DROPS_TARGET,
        !.max_drops_allowed = MAX_DROPS_ALLOWED,
        !.best = IF sug.ok
                 THEN Gains(SeventyPercent(sug.gains.coarse_kp),
                            SeventyPercent(sug.gains.coarse_kd),
                            SeventyPercent(sug.gains.fine_kp),
                            SeventyPercent(sug.gains.fine_kd))
                 ELSE ZeroGains]

\* ai_tuning_get_next_params: the set of gain tuples the call can return
\* (more than one only where the GP chooses); empty when it returns false.
ai_tuning_get_next_params(s, t) ==
    IF s.state = "PHASE_1_COARSE"
    THEN IF t.coarse_tuning_phase = "GP_REFINE"
         THEN {Gains(g.kp, g.kd, 0, 0) : g \in gp_get_next_params(t.gp_coarse)}
         ELSE {Gains(s.best.coarse_kp, s.best.coarse_kd, 0, 0)}
    ELSE IF s.state = "PHASE_2_FINE"
    THEN IF t.fine_tuning_phase = "GP_REFINE"
         THEN {Gains(s.recommended.coarse_kp, s.recommended.coarse_kd, g.kp, g.kd) :
                  g \in gp_get_next_params(t.gp_fine)}
         ELSE {Gains(s.recommended.coarse_kp, s.recommended.coarse_kd,
                     s.best.fine_kp, s.best.fine_kd)}
    ELSE {}

\* finalize_recommendations
finalize_recommendations(s) == [s EXCEPT !.state = "COMPLETE"]

\* The test of the refinement counter one drop late.
gp_refine_complete_late(n) == n > GP_REFINE_DROPS

\* Lines 380 and 503: the test made after g_gp_refine_drops++.
gp_refine_complete(n) == n >= GP_REFINE_DROPS

\* A back-off that stays at the backed-off value.
kp_after_overthrow_back_only(kp, old_step, new_step) == fmaxf(kp - old_step, 0)

\* Lines 414-422: on an overthrow Kp is taken back by the step (not below 0),
\* the step is halved, and Kp is moved forward again by the halved step.
kp_after_overthrow(kp, old_step, new_step) == fmaxf(kp - old_step, 0) + new_step

\* calculate_next_params_phase1
calculate_next_params_phase1(st, drop, coarse_threshold, target_coarse_time_ms) ==
    LET s == st.s
        t == st.t
        has_overthrow == drop.overthrow > coarse_threshold
        time_ok == drop.coarse_time_ms <= target_coarse_time_ms
        clamp(x) == [x EXCEPT
            !.s.best.coarse_kp = fminf(fmaxf(@, COARSE_KP_MIN), COARSE_KP_MAX),
            !.s.best.coarse_kd = fminf(fmaxf(@, COARSE_KD_MIN), COARSE_KD_MAX)]
    IN
    IF t.coarse_tuning_phase = "GP_REFINE"
    THEN IF gp_refine_complete(t.gp_refine_drops + 1)
         THEN LET b == gp_get_best_observed(t.gp_coarse) IN
              [s |-> [s EXCEPT !.recommended.coarse_kp = b.kp,
                               !.recommended.coarse_kd = b.kd,
                               !.phase2_start_idx = s.drops_completed,
                               !.state = "PHASE_2_FINE"],
               t |-> [t EXCEPT !.gp_refine_drops = 0]]
         ELSE [st EXCEPT !.t.gp_refine_drops = @ + 1]
    ELSE IF t.coarse_tuning_phase = "ADAPTIVE_KP"
    THEN IF has_overthrow
         THEN IF t.coarse_kp_step > COARSE_MIN_STEP
              THEN LET step == fmaxf(t.coarse_kp_step \div 2, COARSE_MIN_STEP) IN
                   clamp([st EXCEPT
                       !.t.coarse_had_overthrow = TRUE,
                       !.t.coarse_kp_step = step,
                       !.s.best.coarse_kp = kp_after_overthrow(@, t.coarse_kp_step, step)])
              ELSE clamp([st EXCEPT
                       !.t.coarse_had_overthrow = TRUE,
                       !.t.coarse_tuning_phase = "ADAPTIVE_KD",
                       !.s.best.coarse_kd = @ + t.coarse_kd_step])
         ELSE IF s.best.coarse_kp + t.coarse_kp_step >= COARSE_KP_MAX
              THEN clamp([st EXCEPT
                       !.s.best.coarse_kp = COARSE_KP_MAX,
                       !.t.coarse_tuning_phase = "ADAPTIVE_KD"])
              ELSE clamp([st EXCEPT !.s.best.coarse_kp = @ + t.coarse_kp_step])
    ELSE \* ADAPTIVE_KD
         IF ~has_overthrow /\ time_ok
         THEN clamp([st EXCEPT
                  !.s.best.coarse_kp = fminf(@, COARSE_KP_MAX),
                  !.s.best.coarse_kd = fminf(@, COARSE_KD_MAX),
                  !.t.coarse_tuning_phase = "GP_REFINE",
                  !.t.gp_refine_drops = 0])
         ELSE IF has_overthrow
         THEN IF s.best.coarse_kd + t.coarse_kd_step >= COARSE_KD_MAX
              THEN clamp([st EXCEPT
                       !.s.best.coarse_kd = COARSE_KD_MAX,
                       !.t.coarse_tuning_phase = "GP_REFINE"])
              ELSE clamp([st EXCEPT !.s.best.coarse_kd = @ + t.coarse_kd_step])
         ELSE clamp([st EXCEPT !.s.best.coarse_kp = @ + COARSE_MIN_STEP])

\* calculate_next_params_phase2
calculate_next_params_phase2(st, drop, target_total_time_ms) ==
    LET s == st.s
        t == st.t
        has_overthrow == drop.overthrow > 0
        overthrow_acceptable == fabsf(drop.overthrow_percent) <= MAX_OVERTHROW_PERCENT
        time_ok == drop.total_time_ms <= target_total_time_ms
        clamp(x) == [x EXCEPT
            !.s.best.fine_kp = fminf(fmaxf(@, FINE_KP_MIN), FINE_KP_MAX),
            !.s.best.fine_kd = fminf(fmaxf(@, FINE_KD_MIN), FINE_KD_MAX)]
    IN
    IF t.fine_tuning_phase = "GP_REFINE"
    THEN IF gp_refine_complete(t.gp_refine_drops + 1)
         THEN LET b == gp_get_best_observed(t.gp_fine) IN
              [s |-> finalize_recommendations(
                        [s EXCEPT !.recommended.fine_kp = b.kp,
                                  !.recommended.fine_kd = b.kd]),
               t |-> [t EXCEPT !.gp_refine_drops = @ + 1]]
         ELSE [st EXCEPT !.t.gp_refine_drops = @ + 1]
    ELSE IF t.fine_tuning_phase = "ADAPTIVE_KP"
    THEN IF has_overthrow
         THEN IF t.fine_kp_step > FINE_MIN_STEP
              THEN LET step == fmaxf(t.fine_kp_step \div 2, FINE_MIN_STEP) IN
                   clamp([st EXCEPT
                       !.t.fine_had_overthrow = TRUE,
                       !.t.fine_kp_step = step,
                       !.s.best.fine_kp = fmaxf(@ - t.fine_kp_step, 0) + step])
              ELSE clamp([st EXCEPT
                       !.t.fine_had_overthrow = TRUE,
                       !.t.fine_tuning_phase = "ADAPTIVE_KD",
                       !.s.best.fine_kd = @ + t.fine_kd_step])
         ELSE IF s.best.fine_kp + t.fine_kp_step >= FINE_KP_MAX
              THEN clamp([st EXCEPT
                       !.s.best.fine_kp = FINE_KP_MAX,
                       !.t.fine_tuning_phase = "ADAPTIVE_KD"])
              ELSE clamp([st EXCEPT !.s.best.fine_kp = @ + t.fine_kp_step])
    ELSE \* ADAPTIVE_KD
         IF overthrow_acceptable /\ time_ok
         THEN clamp([st EXCEPT
                  !.s.best.fine_kp = fminf(@, FINE_KP_MAX),
                  !.s.best.fine_kd = fminf(@, FINE_KD_MAX),
                  !.t.fine_tuning_phase = "GP_REFINE",
                  !.t.gp_refine_drops = 0])
         ELSE IF ~overthrow_acceptable /\ has_overthrow
         THEN IF s.best.fine_kd + t.fine_kd_step >= FINE_KD_MAX
              THEN clamp([st EXCEPT
                       !.s.best.fine_kd = FINE_KD_MAX,
                       !.t.fine_tuning_phase = "GP_REFINE"])
              ELSE clamp([st EXCEPT !.s.best.fine_kd = @ + t.fine_kd_step])
         ELSE IF ~time_ok
         THEN clamp([st EXCEPT !.s.best.fine_kp = @ + FINE_MIN_STEP])
         ELSE IF s.best.fine_kd > FINE_MIN_STEP
         THEN clamp([st EXCEPT !.s.best.fine_kd = @ - FINE_MIN_STEP])
         ELSE clamp(st)

\* ai_tuning_start, lines 181-186 and 228-241: the time targets, the GP
\* models and the statics.
ai_tuning_start_tuning(cfg) ==
    [TuningAtReset EXCEPT
        !.target_coarse_time_ms = cfg.coarse_time_target_ms,
        !.target_total_time_ms = cfg.total_time_target_ms,
        !.coarse_kp_step = 200, !.coarse_kd_step = 100,
        !.fine_kp_step = 2000, !.fine_kd_step = 1000,
        !.gp_coarse = GpEmpty(COARSE_KP_MIN, COARSE_KP_MAX),
        !.gp_fine = GpEmpty(FINE_KP_MIN, FINE_KP_MAX)]

\* The cap test of ai_tuning_record_drop off by one.
drops_limit_reached_late(s) == s.drops_completed > s.max_drops_allowed

\* Line 309: the cap on the drops of a session.
drops_limit_reached(s) == s.drops_completed >= s.max_drops_allowed

\* ai_tuning_record_drop
ai_tuning_record_drop(st, telemetry, coarse_threshold) ==
    IF ~ai_tuning_is_active(st.s) THEN st
    ELSE IF drops_limit_reached(st.s)
    THEN [st EXCEPT !.s.state = "ERROR",
                    !.s.error_message = TRUE,
                    !.s.recommended = st.s.best]
    ELSE
    LET idx == st.s.drops_completed
        score == calculate_score(telemetry, st.t.target_total_time_ms)
        stored == [st EXCEPT !.s.drops = @ \cup {idx},
                             !.s.drops_completed = @ + 1]
    IN  IF st.s.state = "PHASE_1_COARSE"
        THEN calculate_next_params_phase1(
                 [stored EXCEPT !.t.gp_coarse =
                     gp_add_observation(@, telemetry.coarse_kp_used,
                                        telemetry.coarse_kd_used, score)],
                 telemetry, coarse_threshold, st.t.target_coarse_time_ms)
        ELSE calculate_next_params_phase2(
                 [stored EXCEPT !.t.gp_fine =
                     gp_add_observation(@, telemetry.fine_kp_used,
                                        telemetry.fine_kd_used, score)],
                 telemetry, st.t.target_total_time_ms)

\* ai_tuning_apply_params: the recommended gains go into the tuned profile.
ai_tuning_apply_params(s, prof) ==
    IF (s.state # "COMPLETE" /\ s.state # "ERROR") \/ s.target_profile = NO_PROFILE
    THEN [s |-> s, profiles |-> prof]
    ELSE [s |-> [s EXCEPT !.state = "IDLE"],
          profiles |-> [prof EXCEPT ![s.target_profile] = s.recommended]]

\* ai_tuning_cancel
ai_tuning_cancel == SessionAtReset

\* ai_tuning_apply_refined_params
ai_tuning_apply_refined_params(h, prof, profile_idx) ==
    IF ~h.has_suggestions
    THEN [h |-> h, profiles |-> prof]
    ELSE [h |-> [h EXCEPT !.count = 0, !.next_idx = 0, !.drops = <<>>,
                          !.has_suggestions = FALSE],
          profiles |-> [prof EXCEPT ![profile_idx] = h.suggested]]

\* ai_tuning_clear_history
ai_tuning_clear_history == HistoryAtReset

(***************************************************************************)
(* The tuner on its own: charges recorded into the history, sessions       *)
(* started, drops recorded, results applied.                               *)
(*   MaxCharges   charges recorded into the history, per behaviour; the    *)
(*                history is built before the first session starts         *)
(*   MaxSessions  tuning sessions started, per behaviour                   *)
(*   MaxChanges   times the outcome of a drop (overthrow, duration)        *)
(*                differs from the outcome of the drop before it, per      *)
(*                session                                                  *)
(***************************************************************************)
MaxCharges == 3
MaxSessions == 1
MaxChanges == 1

\* What the scale and the clock report of a drop: overthrow (hundredths of
\* a grain) and total time.  The target weight is 20 grains.
DropOverthrows == {2, 600}
DropTimes == {8000, 20000}
ChargeOverthrows == {600}
TargetWeights == {2000}

\* charge_mode_wait_for_complete, lines 445-485: the telemetry of a drop.
DropTelemetry(mode, used, overthrow, total_time_ms, target) ==
    [coarse_time_ms |-> IF mode = "COARSE_ONLY" THEN total_time_ms ELSE 0,
     total_time_ms |-> total_time_ms,
     overthrow |-> overthrow,
     overthrow_percent |-> IF target > 0 THEN (10000 * overthrow) \div target ELSE 0,
     coarse_kp_used |-> used.coarse_kp, coarse_kd_used |-> used.coarse_kd,
     fine_kp_used |-> used.fine_kp, fine_kd_used |-> used.fine_kd]

\* History: the last call, the profile it named, whether a record call found
\* the session full, the record calls of the session so far, the outcome of
\* the last drop and the number of changes of outcome.
TuneObs(step, profile_idx, full, calls, outcome, changes) ==
    [task |-> "control", step |-> step, profile_idx |-> profile_idx,
     full |-> full, calls |-> calls, outcome |-> outcome, changes |-> changes]

NoOutcome == <<>>

TuneObsKeep(step, profile_idx) ==
    TuneObs(step, profile_idx, FALSE, obs.calls, obs.outcome, obs.changes)

TuneFrame == UNCHANGED <<mainVars, store, sideVars, chargeVars>>

\* A charge outside a session ends: charge_mode_wait_for_complete records it
\* with the gains of the selected profile (lines 492-510).
TuneRecordCharge(profile_idx, overthrow) ==
    /\ ~ai_tuning_is_active(g_session)
    /\ budget.sessions = 0
    /\ budget.charges < MaxCharges
    /\ g_history' = ai_tuning_record_charge(g_history, profile_idx, profiles[profile_idx],
                        overthrow, charge_mode_config.coarse_stop_threshold,
                        charge_mode_config.fine_stop_threshold)
    /\ budget' = [budget EXCEPT !.charges = @ + 1]
    /\ obs' = TuneObsKeep("record_charge", profile_idx)
    /\ UNCHANGED <<g_session, g_tuning, profiles>>
    /\ TuneFrame

\* http_rest_ai_tuning_start (and the start button of the UI).
TuneStart(profile_idx) ==
    /\ budget.sessions < MaxSessions
    /\ g_session' = ai_tuning_start_session(g_history, profile_idx)
    /\ g_tuning' = ai_tuning_start_tuning(charge_mode_config)
    /\ budget' = [budget EXCEPT !.sessions = @ + 1]
    /\ obs' = TuneObs("start", profile_idx, FALSE, 0, NoOutcome, 0)
    /\ UNCHANGED <<g_history, profiles>>
    /\ TuneFrame

\* A drop of a session ends: charge_mode_wait_for_complete hands the
\* telemetry to ai_tuning_record_drop (lines 466-491).
TuneRecordDrop(overthrow, total_time_ms) ==
    /\ ai_tuning_is_active(g_session)
    /\ (obs.outcome # NoOutcome /\ obs.outcome # <<overthrow, total_time_ms>>)
           => obs.changes < MaxChanges
    /\ \E used \in ai_tuning_get_next_params(g_session, g_tuning) :
        LET telemetry == DropTelemetry(ai_tuning_get_motor_mode(g_session), used,
                                       overthrow, total_time_ms,
                                       charge_mode_config.target_charge_weight)
            st == ai_tuning_record_drop([s |-> g_session, t |-> g_tuning], telemetry,
                                        charge_mode_config.coarse_stop_threshold)
        IN  /\ g_session' = st.s
            /\ g_tuning' = st.t
    /\ obs' = TuneObs("record_drop", g_session.target_profile,
                      g_session.drops_completed >= MAX_DROPS_ALLOWED, obs.calls + 1,
                      <<overthrow, total_time_ms>>,
                      IF obs.outcome # NoOutcome /\ obs.outcome # <<overthrow, total_time_ms>>
                      THEN obs.changes + 1 ELSE obs.changes)
    /\ UNCHANGED <<g_history, profiles, budget>>
    /\ TuneFrame

\* http_rest_ai_tuning_apply: refused unless the session is complete.
TuneApply ==
    /\ ai_tuning_is_complete(g_session)
    /\ LET r == ai_tuning_apply_params(g_session, profiles) IN
        /\ g_session' = r.s
        /\ profiles' = r.profiles
    /\ obs' = TuneObsKeep("apply", g_session.target_profile)
    /\ UNCHANGED <<g_tuning, g_history, budget>>
    /\ TuneFrame

\* http_rest_ai_tuning_cancel
TuneCancel ==
    /\ g_session # SessionAtReset
    /\ g_session' = ai_tuning_cancel
    /\ obs' = TuneObsKeep("cancel", NO_PROFILE)
    /\ UNCHANGED <<g_tuning, g_history, profiles, budget>>
    /\ TuneFrame

\* http_rest_ai_tuning_apply_refined
TuneApplyRefined(profile_idx) ==
    /\ budget.sessions = 0
    /\ g_history.has_suggestions
    /\ LET r == ai_tuning_apply_refined_params(g_history, profiles, profile_idx) IN
        /\ g_history' = r.h
        /\ profiles' = r.profiles
    /\ obs' = TuneObsKeep("apply_refined", profile_idx)
    /\ UNCHANGED <<g_session, g_tuning, budget>>
    /\ TuneFrame

\* http_rest_ai_tuning_clear_history
TuneClearHistory ==
    /\ budget.sessions = 0
    /\ g_history # HistoryAtReset
    /\ g_history' = ai_tuning_clear_history
    /\ obs' = TuneObsKeep("clear_history", NO_PROFILE)
    /\ UNCHANGED <<g_session, g_tuning, profiles, budget>>
    /\ TuneFrame

TuneInit ==
    /\ PowerOn(FactoryMeta, FactoryFlash)
    /\ store = StoreInit
    /\ SideAtReset
    /\ g_session = SessionAtReset
    /\ g_tuning = TuningAtReset
    /\ g_history = HistoryAtReset
    /\ profiles = [p \in ProfileIdx |-> IF p = 0 THEN HighGains ELSE LowGains]
    /\ charge_mode_config \in
           {[ChargeConfigAtReset EXCEPT !.target_charge_weight = w] : w \in TargetWeights}
    /\ control = ControlAtReset
    /\ encoder_event_queue = <<>>
    /\ motors = MotorsAtReset
    /\ leds = "default"
    /\ obs = TuneObs("none", NO_PROFILE, FALSE, 0, NoOutcome, 0)
    /\ budget = BudgetAtReset

TuneNext ==
    \/ \E p \in ProfileIdx, o \in ChargeOverthrows : TuneRecordCharge(p, o)
    \/ \E p \in ProfileIdx : TuneStart(p)
    \/ \E o \in DropOverthrows, ms \in DropTimes : TuneRecordDrop(o, ms)
    \/ TuneApply
    \/ TuneCancel
    \/ \E p \in ProfileIdx : TuneApplyRefined(p)
    \/ TuneClearHistory

TuneSpec == TuneInit /\ [][TuneNext]_vars

InRange(x, lo, hi) == lo <= x /\ x <= hi

\* The hard bounds of section 4.4: coarse gains in [0, 1], fine gains in
\* [0, 10].
GainsInBounds(g) ==
    /\ InRange(g.coarse_kp, 0, 1000)
    /\ InRange(g.coarse_kd, 0, 1000)
    /\ InRange(g.fine_kp, 0, 10000)
    /\ InRange(g.fine_kd, 0, 10000)

\* C19: in every state of an active session, the first drop after a seeded
\* start included, the gains ai_tuning_get_next_params returns lie inside
\* the hard bounds.
C19_NextGainsInBounds ==
    ai_tuning_is_active(g_session) =>
        \A g \in ai_tuning_get_next_params(g_session, g_tuning) : GainsInBounds(g)

\* The history records of one profile, and the mean of a gain over them.
ProfileDrops(h, profile_idx) ==
    {i \in 1..h.count : h.drops[i].profile_idx = profile_idx}

ProfileMeans(h, profile_idx) ==
    LET sel == ProfileDrops(h, profile_idx)
        mean(field) == HistorySum(h.drops, sel, field) \div Cardinality(sel)
    IN  Gains(mean("coarse_kp"), mean("coarse_kd"), mean("fine_kp"), mean("fine_kd"))

Scaled70(g) ==
    Gains((7 * g.coarse_kp) \div 10, (7 * g.coarse_kd) \div 10,
          (7 * g.fine_kp) \div 10, (7 * g.fine_kd) \div 10)

\* C20 as stated: a session starts from 70 percent of the per-profile
\* historical means when the history holds three or more drops of the
\* selected profile, and from 0 otherwise.
C20_SeedProfileMeansOrZero ==
    obs.step = "start" =>
        g_session.best =
            IF Cardinality(ProfileDrops(g_history, obs.profile_idx)) >= 3
            THEN Scaled70(ProfileMeans(g_history, obs.profile_idx))
            ELSE ZeroGains

\* C20, amended: a session starts from 70 percent of the per-profile
\* historical means when the history holds three or more drops of the
\* selected profile; with fewer drops of that profile but three or more
\* drops in all, from 70 percent of the history's global suggested gains;
\* from 0 when the history holds fewer than three drops.
C20_SeedProfileGlobalOrZero ==
    obs.step = "start" =>
        g_session.best =
            IF Cardinality(ProfileDrops(g_history, obs.profile_idx)) >= 3
            THEN Scaled70(ProfileMeans(g_history, obs.profile_idx))
            ELSE IF g_history.count >= 3
            THEN Scaled70(g_history.suggested)
            ELSE ZeroGains

\* A session was started for a profile with fewer than three drops in a
\* history of three, and its gains were seeded.
C20_Witness ==
    /\ obs.step = "start"
    /\ g_history.count >= 3
    /\ Cardinality(ProfileDrops(g_history, obs.profile_idx)) < 3
    /\ g_session.state = "PHASE_1_COARSE"
    /\ g_session.best # ZeroGains

\* The session is in the GP-refinement substep of its phase.
InGpRefine(s, t) ==
    \/ s.state = "PHASE_1_COARSE" /\ t.coarse_tuning_phase = "GP_REFINE"
    \/ s.state = "PHASE_2_FINE" /\ t.fine_tuning_phase = "GP_REFINE"

\* The score of the drop whose outcome the last record call reported.
OutcomeScore(outcome, cfg, t) ==
    calculate_score(DropTelemetry("NORMAL", ZeroGains, outcome[1], outcome[2],
                                  cfg.target_charge_weight),
                    t.target_total_time_ms)

\* What recording the n-th drop of the substep does: before the fifth the
\* phase stays and the counter is n; the fifth sets the recommended gains of
\* the phase to the best observation of the phase's GP model, whose score is
\* no less than the score of this drop if the model had room for it, and
\* moves PHASE_1 to PHASE_2, PHASE_2 to COMPLETE.
GpDropRecorded ==
    /\ g_session'.drops_completed = g_session.drops_completed + 1
    /\ IF g_tuning.gp_refine_drops + 1 < GP_REFINE_DROPS
       THEN /\ g_session'.state = g_session.state
            /\ g_session'.recommended = g_session.recommended
            /\ g_tuning'.gp_refine_drops = g_tuning.gp_refine_drops + 1
            /\ InGpRefine(g_session', g_tuning')
       ELSE /\ g_tuning.gp_refine_drops + 1 = GP_REFINE_DROPS
            /\ IF g_session.state = "PHASE_1_COARSE"
               THEN LET b == gp_get_best_observed(g_tuning'.gp_coarse) IN
                    /\ g_session'.state = "PHASE_2_FINE"
                    /\ g_session'.recommended =
                           [g_session.recommended EXCEPT !.coarse_kp = b.kp,
                                                         !.coarse_kd = b.kd]
                    /\ g_tuning.gp_coarse.n_obs < GP_MAX_POINTS =>
                           g_tuning'.gp_coarse.best_score >=
                               OutcomeScore(obs'.outcome, charge_mode_config, g_tuning)
               ELSE LET b == gp_get_best_observed(g_tuning'.gp_fine) IN
                    /\ g_session'.state = "COMPLETE"
                    /\ g_session'.recommended =
                           [g_session.recommended EXCEPT !.fine_kp = b.kp,
                                                         !.fine_kd = b.kd]
                    /\ g_tuning.gp_fine.n_obs < GP_MAX_POINTS =>
                           g_tuning'.gp_fine.best_score >=
                               OutcomeScore(obs'.outcome, charge_mode_config, g_tuning)

\* The substep is entered with the counter at 0, and a phase is left for the
\* next one in no other step than the record of a drop of the substep.
GpEntryAndExit ==
    /\ (~InGpRefine(g_session, g_tuning) /\ InGpRefine(g_session', g_tuning'))
           => g_tuning'.gp_refine_drops = 0
    /\ (\/ g_session.state = "PHASE_1_COARSE" /\ g_session'.state = "PHASE_2_FINE"
        \/ g_session.state = "PHASE_2_FINE" /\ g_session'.state = "COMPLETE")
           => (InGpRefine(g_session, g_tuning) /\ obs'.step = "record_drop")

\* C21 as claimed: every record call made in the GP-refinement substep
\* records a drop, so that the substep ends with its fifth drop and in no
\* other way.
C21_FiveGpDropsAlways ==
    [][/\ (InGpRefine(g_session, g_tuning) /\ obs'.step = "record_drop")
           => GpDropRecorded
       /\ GpEntryAndExit]_vars

\* C21: in each phase the GP-refinement substep is entered with its counter
\* at 0; a record call made in it while the session holds fewer than 30 drops
\* records one drop, and the fifth such drop sets the recommended gains of the
\* phase to the best observation of the phase's GP model and moves PHASE_1 to
\* PHASE_2, PHASE_2 to COMPLETE; a record call that finds 30 drops stored
\* records nothing and ends the session in ERROR.
C21_FiveGpDropsUnlessFull ==
    [][/\ (InGpRefine(g_session, g_tuning) /\ obs'.step = "record_drop")
           => IF drops_limit_reached(g_session)
              THEN /\ g_session'.state = "ERROR"
                   /\ g_session'.drops_completed = g_session.drops_completed
              ELSE GpDropRecorded
       /\ GpEntryAndExit]_vars

\* The fifth drop of the refinement of phase 2 completed the session.
C21_Witness ==
    /\ obs.step = "record_drop"
    /\ g_session.state = "COMPLETE"
    /\ g_tuning.gp_refine_drops = GP_REFINE_DROPS
    /\ g_tuning.gp_coarse.n_obs >= GP_REFINE_DROPS
    /\ g_tuning.gp_fine.n_obs >= GP_REFINE_DROPS

(***************************************************************************)
(* Charge mode (charge_mode.cpp).                                          *)
(*                                                                         *)
(* The Control task runs charge_mode_menu: it enters with phase            *)
(* WAIT_FOR_ZERO and dispatches on charge_mode_config.charge_mode_state to *)
(* one phase handler after the other until the phase is EXIT.  A step of   *)
(* Control is one iteration of the wait loop of the running handler, or    *)
(* the dispatch between two handlers.  The REST handlers run on the TCP/IP *)
(* thread (TCPIP_THREAD_PRIO 7, lwipopts.h), which preempts Control and    *)
(* runs beside it on the second core: their steps interleave with those    *)
(* of Control.                                                             *)
(*   MaxRest     REST requests per behaviour                               *)
(*   MaxPress    button presses per behaviour                              *)
(*   MaxDrops    drops started per behaviour                               *)
(*   MaxSamples  samples the main dispense loop accepts per drop before    *)
(*               the one that stops it                                     *)
(*   MaxQueue    capacity of the input queue                               *)
(***************************************************************************)
MaxRest == 2
MaxPress == 1
MaxDrops == 2
MaxSamples == 3
MaxQueue == 2

ChargeStates ==
    {"WAIT_FOR_ZERO", "WAIT_FOR_COMPLETE", "WAIT_FOR_CUP_REMOVAL",
     "WAIT_FOR_CUP_RETURN", "EXIT"}

\* What the cast (charge_mode_state_t) atoi(values[idx]) can yield: a member
\* of the enum or another integer.
S2Values == {"WAIT_FOR_ZERO", "WAIT_FOR_COMPLETE", "EXIT", "OTHER"}

\* Range checks of input_validation.h (weights and thresholds in hundredths
\* of a grain: the smallest threshold above 0.001 is 1).
CHARGE_MIN_TARGET_WEIGHT == 0
CHARGE_MAX_TARGET_WEIGHT == 1000000
CHARGE_MIN_THRESHOLD == 1
CHARGE_MAX_THRESHOLD == 100000

validate_target_weight(value) ==
    CHARGE_MIN_TARGET_WEIGHT <= value /\ value <= CHARGE_MAX_TARGET_WEIGHT

validate_threshold(value) ==
    CHARGE_MIN_THRESHOLD <= value /\ value <= CHARGE_MAX_THRESHOLD

\* Inputs: the weight the user dials in, the values REST requests carry, the
\* weights the scale reports, the time between two samples, and the speed
\* limits of the motor and of the profile.
S0Values == {-100}
C5Values == {-100}
SelectedProfiles == {0}
ElapsedTimes == {8000}
ScaleWeights == {0, 1800, 2000}
SampleGaps == {0, 200}
MotorLimits == {[min |-> 0, max |-> 500000]}
ProfileLimits == {[min |-> 5000, max |-> 1000000], [min |-> 600000, max |-> 1000000]}

fmin(a, b) == IF a < b THEN a ELSE b
fmax(a, b) == IF a > b THEN a ELSE b

\* Integral gain of a profile: 0 (the tuner and the default profiles leave it
\* at 0).
profile_ki(profile_idx) == 0

\* motor_set_speed and motor_enable: the speed last commanded to a motor, and
\* the enable flag of the drivers.
motor_set_speed(m, which, speed) == [m EXCEPT ![which] = speed]
motor_enable(m, on) == [m EXCEPT !.enabled = on]

\* servo_gate_set_state, called when a servo gate is present (lines 227-229
\* and 513-515): the state last commanded to the gate.
servo_gate_set_state(m, state) ==
    IF m.gate # "GATE_DISABLED" THEN [m EXCEPT !.gate = state] ELSE m

\* The motor states a sequence of motor_set_speed calls goes through.
RECURSIVE MotorTrail(_, _)
MotorTrail(m, cmds) ==
    IF cmds = <<>> THEN <<>>
    ELSE LET n == motor_set_speed(m, cmds[1][1], cmds[1][2])
         IN  <<n>> \o MotorTrail(n, Tail(cmds))

MotorsAfter(m, cmds) ==
    IF cmds = <<>> THEN m ELSE MotorTrail(m, cmds)[Len(cmds)]

BothRun(m) == m.coarse # 0 /\ m.fine # 0
OneRuns(m) == (m.coarse # 0 /\ m.fine = 0) \/ (m.coarse = 0 /\ m.fine # 0)

\* button_wait_for_input(false): the event at the head of the queue, if any.
button_wait_for_input(q) ==
    IF q = <<>> THEN [event |-> "BUTTON_NO_EVENT", queue |-> q]
    ELSE [event |-> Head(q), queue |-> Tail(q)]

\* The clamp without its bounds.
pd_clamp_none(x, lo, hi) == x

\* fmax(min_speed, fmin(new_p + new_i + new_d, max_speed))
pd_clamp(x, lo, hi) == fmax(lo, fmin(x, hi))

\* The speed of one PD iteration (lines 376-379 and 386-389): the derivative
\* is 0 when no time has passed.
pd_speed(kp, ki, kd, error, last_error, integral, dt_ms, lo, hi) ==
    LET new_p == kp * error
        new_i == ki * integral
        new_d == IF dt_ms > 0 THEN (kd * (error - last_error)) \div dt_ms ELSE 0
    IN  pd_clamp(new_p + new_i + new_d, lo, hi)

\* The active motor alone is commanded.
run_one_motor_only(active, speed) == <<<<active, speed>>>>

\* Each branch of the PD loop commands the other motor to 0, then the active
\* motor to the new speed (lines 384-390, 395-401, 407-421, 425-431).
run_one_motor(active, speed) ==
    <<<<IF active = "coarse" THEN "fine" ELSE "coarse", 0>>, <<active, speed>>>>

NoPd == [motor |-> "none", speed |-> 0, lo |-> 0, hi |-> 0]
NoReq == [name |-> "none", value |-> 0]
NoWeight == -1
NoTimes == [mode |-> "none", coarse_time_ms |-> 0, fine_time_ms |-> 0, total_time_ms |-> 0]

\* xTaskGetTickCount() when a drop starts, and the time after which the
\* coarse-to-fine switchover of a drop is taken (1 tick = 1 ms).
StartTicks == {1000}
SwitchGaps == {3000}

\* Lines 440-463: the elapsed time of the drop and its split into coarse and
\* fine time, by the motor mode read after the loop.
charge_times(mode, c, now) ==
    LET total == now - c.charge_start_tick IN
    IF mode = "COARSE_ONLY"
    THEN [mode |-> mode, coarse_time_ms |-> total, fine_time_ms |-> 0,
          total_time_ms |-> total]
    ELSE IF mode = "FINE_ONLY"
    THEN [mode |-> mode, coarse_time_ms |-> 0, fine_time_ms |-> total,
          total_time_ms |-> total]
    ELSE IF c.coarse_end_tick > 0
    THEN [mode |-> mode, coarse_time_ms |-> c.coarse_end_tick - c.charge_start_tick,
          fine_time_ms |-> now - c.fine_start_tick, total_time_ms |-> total]
    ELSE [mode |-> mode, coarse_time_ms |-> 0, fine_time_ms |-> 0,
          total_time_ms |-> total]

\* History of a Control step: whether its scale poll timed out, whether it
\* polled the input queue, the PD command it gave, and whether at each
\* instant between its motor commands at most one, and exactly one, motor
\* had a non-zero commanded speed.
ControlObs(step, timeout, polled, pd, trail) ==
    [task |-> "control", step |-> step, timeout |-> timeout, polled |-> polled,
     pd |-> pd,
     atmost |-> \A i \in 1..Len(trail) : ~BothRun(trail[i]),
     exact |-> \A i \in 1..Len(trail) : OneRuns(trail[i]),
     req |-> NoReq, weight |-> NoWeight, times |-> NoTimes]

\* History of a Control step that read the scale: the weight it read.
ControlObsAt(step, timeout, polled, pd, trail, weight) ==
    [ControlObs(step, timeout, polled, pd, trail) EXCEPT !.weight = weight]

\* History of a step of the REST task or of the user.
EnvObs(task, step, req) ==
    [task |-> task, step |-> step, timeout |-> FALSE, polled |-> FALSE,
     pd |-> NoPd, atmost |-> TRUE, exact |-> TRUE, req |-> req]

ChargeFrame == UNCHANGED <<mainVars, store, sideVars>>

\* The locals of charge_mode_wait_for_complete are dead outside it.
ControlLeft(c, ret) ==
    [ControlAtReset EXCEPT !.pc = "dispatch", !.ret = ret, !.profile = c.profile]

(***************************************************************************)
(* The Control task.                                                       *)
(***************************************************************************)
\* The caller enters charge mode: charge_mode_menu up to its dispatch loop.
\* Unless the entry comes from REST, the target weight is built from the
\* digits the user dialled.
ChargeEnter(skip_user_input, weight) ==
    /\ control.pc = "menu"
    /\ charge_mode_config' =
           [charge_mode_config EXCEPT
               !.target_charge_weight = IF skip_user_input THEN @ ELSE weight,
               !.charge_mode_state = "WAIT_FOR_ZERO"]
    /\ motors' = motor_enable(motors, TRUE)
    /\ control' = [control EXCEPT !.pc = "dispatch", !.ret = "none"]
    /\ obs' = ControlObs("enter", FALSE, FALSE, NoPd, <<>>)
    /\ UNCHANGED <<tuneVars, encoder_event_queue, leds, budget>>
    /\ ChargeFrame

\* The menu that called charge mode reads the input queue while charge mode
\* is not running.
MenuPoll ==
    /\ control.pc = "menu"
    /\ encoder_event_queue # <<>>
    /\ encoder_event_queue' = button_wait_for_input(encoder_event_queue).queue
    /\ obs' = ControlObs("menu_poll", FALSE, TRUE, NoPd, <<>>)
    /\ UNCHANGED <<tuneVars, charge_mode_config, control, motors, leds, budget>>
    /\ ChargeFrame

\* switch (charge_mode_state), case WAIT_FOR_ZERO: charge_mode_wait_for_zero
\* up to its loop.
DispatchWaitForZero ==
    /\ control.pc = "dispatch"
    /\ charge_mode_config.charge_mode_state = "WAIT_FOR_ZERO"
    /\ control' = [control EXCEPT !.pc = "zero", !.ret = "none"]
    /\ leds' = "not_ready"
    /\ obs' = ControlObs("dispatch", FALSE, FALSE, NoPd, <<>>)
    /\ UNCHANGED <<tuneVars, charge_mode_config, encoder_event_queue, motors, budget>>
    /\ ChargeFrame

\* Lines 210-274: the locals of charge_mode_wait_for_complete, the clamp
\* bounds, and the pre-charge of FINE_ONLY with the coarse gains phase 1
\* recommended.
wait_for_complete_begin(c, s, profile_idx, motor_lim, profile_lim) ==
    LET coarse_trickler_max_speed == fmin(motor_lim.max, profile_lim.max)
        coarse_trickler_min_speed == fmax(motor_lim.min, profile_lim.min)
        fine_trickler_max_speed == fmin(motor_lim.max, profile_lim.max)
        fine_trickler_min_speed == fmax(motor_lim.min, profile_lim.min)
        fine_only == ai_tuning_get_motor_mode(s) = "FINE_ONLY"
    IN  [ControlAtReset EXCEPT
            !.pc = IF fine_only THEN "pre" ELSE "disp",
            !.profile = profile_idx,
            !.should_coarse_trickler_move = TRUE,
            !.initial_motor_mode = ai_tuning_get_motor_mode(s),
            !.tuned = IF fine_only
                      THEN [kp |-> s.recommended.coarse_kp, kd |-> s.recommended.coarse_kd]
                      ELSE @,
            !.min_speed = [coarse |-> coarse_trickler_min_speed,
                           fine |-> fine_trickler_min_speed],
            !.max_speed = [coarse |-> coarse_trickler_max_speed,
                           fine |-> fine_trickler_max_speed]]

\* case WAIT_FOR_COMPLETE: charge_mode_wait_for_complete up to its loops.
DispatchWaitForComplete(profile_idx, motor_lim, profile_lim) ==
    /\ control.pc = "dispatch"
    /\ charge_mode_config.charge_mode_state = "WAIT_FOR_COMPLETE"
    /\ budget.drops < MaxDrops
    /\ \E tick \in StartTicks :
          control' = [wait_for_complete_begin(control, g_session, profile_idx,
                                              motor_lim, profile_lim)
                         EXCEPT !.charge_start_tick = tick]
    /\ leds' = "under_charge"
    /\ motors' = servo_gate_set_state(motors, "GATE_OPEN")
    /\ budget' = [budget EXCEPT !.drops = @ + 1]
    /\ obs' = ControlObs("dispatch", FALSE, FALSE, NoPd, <<>>)
    /\ UNCHANGED <<tuneVars, charge_mode_config, encoder_event_queue>>
    /\ ChargeFrame

\* A classification with strict comparisons.
classify_charge_strict(error, fine_stop_threshold) ==
    IF error < 0 - fine_stop_threshold THEN "over_charge"
    ELSE IF error > fine_stop_threshold THEN "under_charge"
    ELSE "normal_charge"

\* Lines 549-585: the post-charge analysis, which chooses the LED colour and
\* the over/under event bits.
classify_charge(error, fine_stop_threshold) ==
    IF error <= 0 - fine_stop_threshold THEN "over_charge"
    ELSE IF error >= fine_stop_threshold THEN "under_charge"
    ELSE "normal_charge"

\* case WAIT_FOR_CUP_REMOVAL: charge_mode_wait_for_cup_removal up to its
\* loop; the LEDs show whether the weight on the scale is over, under or on
\* the target.
DispatchWaitForCupRemoval(current_measurement) ==
    /\ control.pc = "dispatch"
    /\ charge_mode_config.charge_mode_state = "WAIT_FOR_CUP_REMOVAL"
    /\ control' = [control EXCEPT !.pc = "removal", !.ret = "none"]
    /\ leds' = classify_charge(charge_mode_config.target_charge_weight - current_measurement,
                               charge_mode_config.fine_stop_threshold)
    /\ obs' = ControlObsAt("dispatch", FALSE, FALSE, NoPd, <<>>, current_measurement)
    /\ UNCHANGED <<tuneVars, charge_mode_config, encoder_event_queue, motors, budget>>
    /\ ChargeFrame

\* case WAIT_FOR_CUP_RETURN: charge_mode_wait_for_cup_return up to its loop.
DispatchWaitForCupReturn ==
    /\ control.pc = "dispatch"
    /\ charge_mode_config.charge_mode_state = "WAIT_FOR_CUP_RETURN"
    /\ control' = [control EXCEPT !.pc = "ret", !.ret = "none"]
    /\ leds' = "not_ready"
    /\ obs' = ControlObs("dispatch", FALSE, FALSE, NoPd, <<>>)
    /\ UNCHANGED <<tuneVars, charge_mode_config, encoder_event_queue, motors, budget>>
    /\ ChargeFrame

\* case EXIT and default: the loop quits; the LEDs are reset, the motors
\* disabled, and charge_mode_menu returns to its caller.
DispatchExit ==
    /\ control.pc = "dispatch"
    /\ charge_mode_config.charge_mode_state \notin
           {"WAIT_FOR_ZERO", "WAIT_FOR_COMPLETE", "WAIT_FOR_CUP_REMOVAL",
            "WAIT_FOR_CUP_RETURN"}
    /\ leds' = "default"
    /\ motors' = motor_enable(motors, FALSE)
    /\ control' = [control EXCEPT !.pc = "menu", !.ret = "none"]
    /\ obs' = ControlObs("exit", FALSE, FALSE, NoPd, <<>>)
    /\ UNCHANGED <<tuneVars, charge_mode_config, encoder_event_queue, budget>>
    /\ ChargeFrame

\* One iteration of the loop of a handler that waits for the scale to
\* settle (wait_for_zero, wait_for_cup_removal, wait_for_cup_return): the
\* input queue is polled, then the scale; `scale` is "timeout", "sample" (a
\* sample that does not end the wait) or "done" (a sample with which the stop
\* condition holds).
WaitStep(at, next_state, scale) ==
    /\ LET in == button_wait_for_input(encoder_event_queue) IN
       /\ encoder_event_queue' = in.queue
       /\ IF in.event = "BUTTON_RST_PRESSED"
          THEN /\ charge_mode_config' =
                      [charge_mode_config EXCEPT !.charge_mode_state = "EXIT"]
               /\ control' = [control EXCEPT !.pc = "dispatch", !.ret = "abort"]
               /\ leds' = leds
               /\ obs' = ControlObs("abort", FALSE, TRUE, NoPd, <<>>)
          ELSE IF scale = "done"
          THEN /\ charge_mode_config' =
                      [charge_mode_config EXCEPT !.charge_mode_state = next_state]
               /\ control' = [control EXCEPT !.pc = "dispatch", !.ret = "done"]
               /\ leds' = IF at = "removal" THEN "default" ELSE leds
               /\ obs' = ControlObs("done", FALSE, TRUE, NoPd, <<>>)
          ELSE /\ UNCHANGED <<charge_mode_config, control, leds>>
               /\ obs' = ControlObs(scale, scale = "timeout", TRUE, NoPd, <<>>)
    /\ UNCHANGED <<tuneVars, motors, budget>>
    /\ ChargeFrame

\* The loop of charge_mode_wait_for_zero (lines 174-205).
WaitForZeroStep(scale) ==
    /\ control.pc = "zero"
    /\ WaitStep("zero", "WAIT_FOR_COMPLETE", scale)

\* The loop of charge_mode_wait_for_cup_removal (lines 588-624).
WaitForCupRemovalStep(scale) ==
    /\ control.pc = "removal"
    /\ WaitStep("removal", "WAIT_FOR_CUP_RETURN", scale)

\* The loop of charge_mode_wait_for_cup_return (lines 641-669).
WaitForCupReturnStep(scale) ==
    /\ control.pc = "ret"
    /\ WaitStep("ret", "WAIT_FOR_ZERO", scale)

\* An iteration of the pre-charge loop of FINE_ONLY in which the scale poll
\* times out (lines 276-280): it ends at `continue`, before the poll of the
\* input queue at the end of the loop body.
PreChargeTimeout ==
    /\ control.pc = "pre"
    /\ obs' = ControlObs("pre_timeout", TRUE, FALSE, NoPd, <<>>)
    /\ UNCHANGED <<tuneVars, chargeVars, budget>>
    /\ ChargeFrame

\* An iteration of the pre-charge loop with a sample (lines 276-313): the
\* loop ends when the coarse threshold is reached; otherwise the coarse motor
\* is commanded and the input queue is polled.
PreChargeSample(current_weight, dt_ms) ==
    /\ control.pc = "pre"
    /\ LET precharge_target == charge_mode_config.target_charge_weight
                                   - charge_mode_config.coarse_stop_threshold
           precharge_error == precharge_target - current_weight
           new_speed == pd_speed(control.tuned.kp, profile_ki(control.profile),
                                 control.tuned.kd, precharge_error,
                                 control.precharge_last_error,
                                 control.precharge_integral + precharge_error, dt_ms,
                                 control.min_speed.coarse, control.max_speed.coarse)
           pd == [motor |-> "coarse", speed |-> new_speed,
                  lo |-> control.min_speed.coarse, hi |-> control.max_speed.coarse]
           in == button_wait_for_input(encoder_event_queue)
       IN  IF precharge_error < charge_mode_config.coarse_stop_threshold
           THEN LET cmds == <<<<"coarse", 0>>>> IN
                /\ motors' = MotorsAfter(motors, cmds)
                /\ control' = [control EXCEPT !.pc = "disp", !.samples = 0,
                                              !.precharge_integral = 0,
                                              !.precharge_last_error = 0,
                                              !.tuned = ControlAtReset.tuned]
                /\ obs' = ControlObsAt("pre_done", FALSE, FALSE, NoPd,
                                       MotorTrail(motors, cmds), current_weight)
                /\ UNCHANGED <<charge_mode_config, encoder_event_queue>>
           ELSE IF in.event = "BUTTON_RST_PRESSED"
           THEN LET cmds == <<<<"coarse", new_speed>>, <<"coarse", 0>>>> IN
                /\ motors' = MotorsAfter(motors, cmds)
                /\ encoder_event_queue' = in.queue
                /\ charge_mode_config' =
                       [charge_mode_config EXCEPT !.charge_mode_state = "EXIT"]
                /\ control' = ControlLeft(control, "abort")
                /\ obs' = ControlObsAt("pre_abort", FALSE, TRUE, pd,
                                       MotorTrail(motors, cmds), current_weight)
           ELSE LET cmds == <<<<"coarse", new_speed>>>> IN
                /\ control.samples < MaxSamples
                /\ motors' = MotorsAfter(motors, cmds)
                /\ encoder_event_queue' = in.queue
                /\ control' = [control EXCEPT
                                  !.precharge_integral = @ + precharge_error,
                                  !.precharge_last_error = precharge_error,
                                  !.samples = @ + 1]
                /\ obs' = ControlObsAt("pre_sample", FALSE, TRUE, pd,
                                       MotorTrail(motors, cmds), current_weight)
                /\ UNCHANGED charge_mode_config
    /\ UNCHANGED <<tuneVars, leds, budget>>
    /\ ChargeFrame

\* Lines 336-437: one accepted sample of the main dispense loop.  The result
\* names the motor commands in the order they are given, the PD command
\* among them, the locals after the iteration and whether the loop stops.
dispense_sample(c, cfg, s, gains, current_weight, dt_ms) ==
    LET error == cfg.target_charge_weight - current_weight
        motor_mode == ai_tuning_get_motor_mode(s)
        integral == c.integral + error
        speed(kp, kd, which) ==
            pd_speed(kp, profile_ki(c.profile), kd, error, c.last_error, integral,
                     dt_ms, c.min_speed[which], c.max_speed[which])
        pdOf(kp, kd, which) ==
            [motor |-> which, speed |-> speed(kp, kd, which),
             lo |-> c.min_speed[which], hi |-> c.max_speed[which]]
        after == [c EXCEPT !.used = gains, !.integral = integral,
                           !.last_error = error, !.samples = @ + 1]
    IN  IF motor_mode = "COARSE_ONLY" /\ error < cfg.coarse_stop_threshold
        THEN [stop |-> TRUE, cmds |-> <<<<"coarse", 0>>, <<"fine", 0>>>>,
              pd |-> NoPd, c |-> [c EXCEPT !.used = gains]]
        ELSE IF motor_mode # "COARSE_ONLY" /\ error < cfg.fine_stop_threshold
        THEN [stop |-> TRUE, cmds |-> <<<<"fine", 0>>, <<"coarse", 0>>>>,
              pd |-> NoPd, c |-> [c EXCEPT !.used = gains]]
        ELSE IF motor_mode = "COARSE_ONLY"
        THEN [stop |-> FALSE,
              cmds |-> run_one_motor("coarse", speed(gains.coarse_kp, gains.coarse_kd, "coarse")),
              pd |-> pdOf(gains.coarse_kp, gains.coarse_kd, "coarse"), c |-> after]
        ELSE IF motor_mode = "FINE_ONLY"
        THEN [stop |-> FALSE,
              cmds |-> run_one_motor("fine", speed(gains.fine_kp, gains.fine_kd, "fine")),
              pd |-> pdOf(gains.fine_kp, gains.fine_kd, "fine"), c |-> after]
        ELSE IF c.should_coarse_trickler_move
        THEN IF error < cfg.coarse_stop_threshold
             THEN [stop |-> FALSE, cmds |-> <<<<"fine", 0>>, <<"coarse", 0>>>>,
                   pd |-> NoPd,
                   c |-> [after EXCEPT !.should_coarse_trickler_move = FALSE]]
             ELSE [stop |-> FALSE,
                   cmds |-> run_one_motor("coarse",
                                speed(gains.coarse_kp, gains.coarse_kd, "coarse")),
                   pd |-> pdOf(gains.coarse_kp, gains.coarse_kd, "coarse"), c |-> after]
        ELSE [stop |-> FALSE,
              cmds |-> run_one_motor("fine", speed(gains.fine_kp, gains.fine_kd, "fine")),
              pd |-> pdOf(gains.fine_kp, gains.fine_kd, "fine"), c |-> after]

\* Lines 517-527: the pre-charge after a drop, when it is enabled and a servo
\* gate is present.
end_precharge(cfg, gate) ==
    IF cfg.precharge_enable /\ gate
    THEN <<<<"coarse", cfg.precharge_speed_rps>>, <<"coarse", 0>>>>
    ELSE <<>>

\* Lines 340-350: the gains of the iteration, from the tuner while a session
\* is active and from the profile otherwise.
dispense_gains(s, t, prof) ==
    IF ai_tuning_is_active(s) THEN ai_tuning_get_next_params(s, t) ELSE {prof}

\* An iteration of the main dispense loop without a sample (lines 319-333):
\* the input queue is polled, and a reset-button event ends the handler with
\* phase EXIT; otherwise the scale poll times out and the loop continues.
DispenseNoSample ==
    /\ control.pc = "disp"
    /\ LET in == button_wait_for_input(encoder_event_queue) IN
       /\ encoder_event_queue' = in.queue
       /\ IF in.event = "BUTTON_RST_PRESSED"
          THEN /\ charge_mode_config' =
                      [charge_mode_config EXCEPT !.charge_mode_state = "EXIT"]
               /\ control' = ControlLeft(control, "abort")
               /\ obs' = ControlObs("abort", FALSE, TRUE, NoPd, <<>>)
          ELSE /\ obs' = ControlObs("timeout", TRUE, TRUE, NoPd, <<>>)
               /\ UNCHANGED <<charge_mode_config, control>>
    /\ UNCHANGED <<tuneVars, motors, leds, budget>>
    /\ ChargeFrame

\* An iteration of the main dispense loop with a sample that does not stop
\* it (lines 319-438); at the switch from coarse to fine the tick count is
\* taken as coarse_end_tick and fine_start_tick (lines 411-412).
DispenseSample(current_weight, dt_ms) ==
    /\ control.pc = "disp"
    /\ control.samples < MaxSamples
    /\ LET in == button_wait_for_input(encoder_event_queue) IN
       /\ in.event # "BUTTON_RST_PRESSED"
       /\ encoder_event_queue' = in.queue
    /\ \E gains \in dispense_gains(g_session, g_tuning, profiles[control.profile]) :
       LET r == dispense_sample(control, charge_mode_config, g_session, gains,
                                current_weight, dt_ms)
           switched == control.should_coarse_trickler_move
                           /\ ~r.c.should_coarse_trickler_move
       IN  /\ ~r.stop
           /\ motors' = MotorsAfter(motors, r.cmds)
           /\ \E gap \in SwitchGaps :
                 control' = IF switched
                            THEN [r.c EXCEPT
                                    !.coarse_end_tick = control.charge_start_tick + gap,
                                    !.fine_start_tick = control.charge_start_tick + gap]
                            ELSE r.c
           /\ obs' = ControlObsAt("sample", FALSE, TRUE, r.pd,
                                  MotorTrail(motors, r.cmds), current_weight)
    /\ UNCHANGED <<tuneVars, charge_mode_config, leds, budget>>
    /\ ChargeFrame

\* A drop that is always handed to the tuner.
telemetry_sink_tuner_only(s) == "tuner"

\* Line 466: a finished drop is recorded by the tuner when a session is
\* active and into the history of charges otherwise.
telemetry_sink(s) == IF ai_tuning_is_active(s) THEN "tuner" ELSE "history"

\* The iteration whose sample stops the main dispense loop, and the rest of
\* charge_mode_wait_for_complete (lines 359-373 and 440-532): both motors are
\* commanded to 0, the drop is recorded by the tuner or into the history of
\* charges, the gate is closed if there is one (`gate`), the pre-charge runs
\* if enabled, and the phase becomes WAIT_FOR_CUP_REMOVAL.
DispenseStop(current_weight, total_time_ms, gate) ==
    /\ control.pc = "disp"
    /\ LET in == button_wait_for_input(encoder_event_queue) IN
       /\ in.event # "BUTTON_RST_PRESSED"
       /\ encoder_event_queue' = in.queue
    /\ \E gains \in dispense_gains(g_session, g_tuning, profiles[control.profile]) :
       LET r == dispense_sample(control, charge_mode_config, g_session, gains,
                                current_weight, 0)
           cmds == r.cmds \o end_precharge(charge_mode_config, gate)
           overthrow == current_weight - charge_mode_config.target_charge_weight
           telemetry == DropTelemetry(ai_tuning_get_motor_mode(g_session), r.c.used,
                                      overthrow, total_time_ms,
                                      charge_mode_config.target_charge_weight)
           st == ai_tuning_record_drop([s |-> g_session, t |-> g_tuning], telemetry,
                                       charge_mode_config.coarse_stop_threshold)
       IN  /\ r.stop
           /\ gate = (motors.gate # "GATE_DISABLED")
           /\ motors' = MotorsAfter(servo_gate_set_state(MotorsAfter(motors, r.cmds),
                                                         "GATE_CLOSE"),
                                    end_precharge(charge_mode_config, gate))
           /\ obs' = [ControlObsAt("stop", FALSE, TRUE, NoPd,
                                   MotorTrail(motors, cmds), current_weight)
                         EXCEPT !.times =
                             charge_times(ai_tuning_get_motor_mode(g_session), control,
                                          control.charge_start_tick + total_time_ms)]
           /\ IF telemetry_sink(g_session) = "tuner"
              THEN /\ g_session' = st.s
                   /\ g_tuning' = st.t
                   /\ UNCHANGED <<g_history, profiles>>
              ELSE /\ g_history' =
                          ai_tuning_record_charge(g_history, control.profile,
                              profiles[control.profile], overthrow,
                              charge_mode_config.coarse_stop_threshold,
                              charge_mode_config.fine_stop_threshold)
                   /\ UNCHANGED <<g_session, g_tuning, profiles>>
    /\ control' = ControlLeft(control, "done")
    /\ charge_mode_config' =
           [charge_mode_config EXCEPT !.charge_mode_state = "WAIT_FOR_CUP_REMOVAL"]
    /\ UNCHANGED <<leds, budget>>
    /\ ChargeFrame

(***************************************************************************)
(* The user and the REST task.                                             *)
(***************************************************************************)
\* A press of the reset button or of the encoder (the stop button of
\* ui_charge_mode.cpp sends BUTTON_RST_PRESSED).
UserPress(event) ==
    /\ budget.press < MaxPress
    /\ Len(encoder_event_queue) < MaxQueue
    /\ encoder_event_queue' = Append(encoder_event_queue, event)
    /\ budget' = [budget EXCEPT !.press = @ + 1]
    /\ obs' = EnvObs("user", "press", NoReq)
    /\ UNCHANGED <<tuneVars, charge_mode_config, control, motors, leds>>
    /\ ChargeFrame

\* http_rest_charge_mode_state with parameter s0: the target weight.
RestChargeModeStateS0(value) ==
    /\ budget.rest < MaxRest
    /\ charge_mode_config' = [charge_mode_config EXCEPT !.target_charge_weight = value]
    /\ budget' = [budget EXCEPT !.rest = @ + 1]
    /\ obs' = EnvObs("rest", "charge_mode_state", [name |-> "s0", value |-> value])
    /\ UNCHANGED <<tuneVars, control, encoder_event_queue, motors, leds>>
    /\ ChargeFrame

\* http_rest_charge_mode_state with parameter s2: the phase.  A request for
\* EXIT while charge mode runs queues a reset-button event, a request for
\* WAIT_FOR_ZERO while it does not run queues OVERRIDE_FROM_REST; then the
\* phase is written.
RestChargeModeStateS2(new_state) ==
    /\ budget.rest < MaxRest
    /\ LET state == charge_mode_config.charge_mode_state
           sent == IF new_state = "EXIT" /\ state # "EXIT"
                   THEN <<"BUTTON_RST_PRESSED">>
                   ELSE IF new_state = "WAIT_FOR_ZERO" /\ state = "EXIT"
                   THEN <<"OVERRIDE_FROM_REST">>
                   ELSE <<>>
       IN  /\ sent # <<>> => Len(encoder_event_queue) < MaxQueue
           /\ encoder_event_queue' = encoder_event_queue \o sent
    /\ charge_mode_config' = [charge_mode_config EXCEPT !.charge_mode_state = new_state]
    /\ budget' = [budget EXCEPT !.rest = @ + 1]
    /\ obs' = EnvObs("rest", "charge_mode_state", [name |-> "s2", value |-> new_state])
    /\ UNCHANGED <<tuneVars, control, motors, leds>>
    /\ ChargeFrame

\* http_rest_charge_mode_config with parameter c5: coarse_stop_threshold.
RestChargeModeConfigC5(value) ==
    /\ budget.rest < MaxRest
    /\ charge_mode_config' = [charge_mode_config EXCEPT !.coarse_stop_threshold = value]
    /\ budget' = [budget EXCEPT !.rest = @ + 1]
    /\ obs' = EnvObs("rest", "charge_mode_config", [name |-> "c5", value |-> value])
    /\ UNCHANGED <<tuneVars, control, encoder_event_queue, motors, leds>>
    /\ ChargeFrame

\* http_rest_charge_mode_config with parameter c10: precharge_enable.
RestChargeModeConfigC10(value) ==
    /\ budget.rest < MaxRest
    /\ charge_mode_config' = [charge_mode_config EXCEPT !.precharge_enable = value]
    /\ budget' = [budget EXCEPT !.rest = @ + 1]
    /\ obs' = EnvObs("rest", "charge_mode_config", [name |-> "c10", value |-> value])
    /\ UNCHANGED <<tuneVars, control, encoder_event_queue, motors, leds>>
    /\ ChargeFrame

\* http_rest_ai_tuning_start: ai_tuning_start on the REST task.
RestAiTuningStart(profile_idx) ==
    /\ budget.rest < MaxRest
    /\ g_session' = ai_tuning_start_session(g_history, profile_idx)
    /\ g_tuning' = ai_tuning_start_tuning(charge_mode_config)
    /\ budget' = [budget EXCEPT !.rest = @ + 1]
    /\ obs' = EnvObs("rest", "ai_tuning_start", [name |-> "profile_idx", value |-> profile_idx])
    /\ UNCHANGED <<g_history, profiles, chargeVars>>
    /\ ChargeFrame

\* http_rest_ai_tuning_cancel: ai_tuning_cancel on the REST task.
RestAiTuningCancel ==
    /\ budget.rest < MaxRest
    /\ g_session # SessionAtReset
    /\ g_session' = ai_tuning_cancel
    /\ budget' = [budget EXCEPT !.rest = @ + 1]
    /\ obs' = EnvObs("rest", "ai_tuning_cancel", NoReq)
    /\ UNCHANGED <<g_tuning, g_history, profiles, chargeVars>>
    /\ ChargeFrame

\* A session that phase 1 has completed: ai_tuning_start followed by the
\* drops of phase 1, each on target and in time, with the gains the tuner
\* asked for.
RECURSIVE SessionAfterPhase1(_, _)
SessionAfterPhase1(st, n) ==
    IF n = 0 \/ st.s.state # "PHASE_1_COARSE" THEN st
    ELSE LET used == CHOOSE g \in ai_tuning_get_next_params(st.s, st.t) : TRUE
             telemetry == DropTelemetry("COARSE_ONLY", used, 2, 8000, 2000)
         IN  SessionAfterPhase1(
                 ai_tuning_record_drop(st, telemetry,
                                       ChargeConfigAtReset.coarse_stop_threshold),
                 n - 1)

TunerStarts ==
    {[s |-> SessionAtReset, t |-> TuningAtReset],
     SessionAfterPhase1([s |-> ai_tuning_start_session(HistoryAtReset, 0),
                         t |-> ai_tuning_start_tuning(ChargeConfigAtReset)],
                        MAX_DROPS_ALLOWED)}

\* The device at power-on; `gates` are the servo-gate states it may have.
ChargeInitWith(gates) ==
    /\ PowerOn(FactoryMeta, FactoryFlash)
    /\ store = StoreInit
    /\ SideAtReset
    /\ \E st \in TunerStarts : g_session = st.s /\ g_tuning = st.t
    /\ g_history = HistoryAtReset
    /\ profiles = [p \in ProfileIdx |-> LowGains]
    /\ charge_mode_config = ChargeConfigAtReset
    /\ control = ControlAtReset
    /\ encoder_event_queue = <<>>
    /\ \E g \in gates : motors = [MotorsAtReset EXCEPT !.gate = g]
    /\ leds = "default"
    /\ obs = EnvObs("none", "none", NoReq)
    /\ budget = BudgetAtReset

\* A device with a servo gate fitted.
ChargeInit == ChargeInitWith({"GATE_CLOSE"})

WaitScale == {"timeout", "sample", "done"}

ChargeNext ==
    \/ \E skip \in BOOLEAN, w \in TargetWeights : ChargeEnter(skip, w)
    \/ MenuPoll
    \/ DispatchWaitForZero
    \/ \E p \in SelectedProfiles, ml \in MotorLimits, pl \in ProfileLimits :
           DispatchWaitForComplete(p, ml, pl)
    \/ \E w \in ScaleWeights : DispatchWaitForCupRemoval(w)
    \/ DispatchWaitForCupReturn
    \/ DispatchExit
    \/ \E scale \in WaitScale : WaitForZeroStep(scale)
    \/ \E scale \in WaitScale : WaitForCupRemovalStep(scale)
    \/ \E scale \in WaitScale : WaitForCupReturnStep(scale)
    \/ PreChargeTimeout
    \/ \E w \in ScaleWeights, dt \in SampleGaps : PreChargeSample(w, dt)
    \/ DispenseNoSample
    \/ \E w \in ScaleWeights, dt \in SampleGaps : DispenseSample(w, dt)
    \/ \E w \in ScaleWeights, ms \in ElapsedTimes, gate \in BOOLEAN :
           DispenseStop(w, ms, gate)
    \/ \E e \in {"BUTTON_RST_PRESSED", "BUTTON_ENCODER_PRESSED"} : UserPress(e)
    \/ \E v \in S0Values : RestChargeModeStateS0(v)
    \/ \E v \in S2Values : RestChargeModeStateS2(v)
    \/ \E v \in C5Values : RestChargeModeConfigC5(v)
    \/ RestChargeModeConfigC10(TRUE)
    \/ \E p \in SelectedProfiles : RestAiTuningStart(p)
    \/ RestAiTuningCancel

ChargeSpec == ChargeInit /\ [][ChargeNext]_vars

(***************************************************************************)
(* Properties of charge mode.                                              *)
(***************************************************************************)
HandlerRuns == control.pc \in {"zero", "pre", "disp", "removal", "ret"}

AllowedPhaseChange(from, to) ==
    \/ to = "EXIT"
    \/ <<from, to>> \in {<<"WAIT_FOR_ZERO", "WAIT_FOR_COMPLETE">>,
                         <<"WAIT_FOR_COMPLETE", "WAIT_FOR_CUP_REMOVAL">>,
                         <<"WAIT_FOR_CUP_REMOVAL", "WAIT_FOR_CUP_RETURN">>,
                         <<"WAIT_FOR_CUP_RETURN", "WAIT_FOR_ZERO">>}

\* C11: charge mode starts in WAIT_FOR_ZERO; while it runs, every change of
\* the phase is WAIT_FOR_ZERO -> WAIT_FOR_COMPLETE (dispense),
\* WAIT_FOR_COMPLETE -> WAIT_FOR_CUP_REMOVAL, WAIT_FOR_CUP_REMOVAL ->
\* WAIT_FOR_CUP_RETURN, WAIT_FOR_CUP_RETURN -> WAIT_FOR_ZERO or any phase ->
\* EXIT; and no phase handler runs while the phase is EXIT.
C11_PhaseSequence ==
    [][/\ (control.pc = "menu" /\ control'.pc # "menu")
           => charge_mode_config'.charge_mode_state = "WAIT_FOR_ZERO"
       /\ (control.pc # "menu"
              /\ charge_mode_config'.charge_mode_state
                     # charge_mode_config.charge_mode_state)
           => AllowedPhaseChange(charge_mode_config.charge_mode_state,
                                 charge_mode_config'.charge_mode_state)
       /\ (control'.pc \in {"zero", "pre", "disp", "removal", "ret"})
           => charge_mode_config'.charge_mode_state # "EXIT"]_vars

\* C12: when a phase handler reads a reset-button event it sets the phase to
\* EXIT and returns, and the next thing charge mode does is to reset the
\* LEDs, disable the motors and return to its caller.
C12_AbortLeavesChargeMode ==
    [][/\ (obs'.task = "control" /\ obs'.step \in {"abort", "pre_abort"})
           => (charge_mode_config'.charge_mode_state = "EXIT"
               /\ control'.pc = "dispatch")
       /\ (control.pc = "dispatch" /\ control.ret = "abort" /\ control' # control)
           => (control'.pc = "menu" /\ leds' = "default" /\ ~motors'.enabled)]_vars

\* C13: an iteration of a wait loop in which the scale poll times out polls
\* the input queue all the same.
C13_TimeoutIterationPolls ==
    (obs.task = "control" /\ obs.timeout) => obs.polled

PreSteps == {"pre_timeout", "pre_sample", "pre_abort", "pre_done"}

C15_SpeedWithinClamp ==
    obs.pd.motor # "none" => (obs.pd.lo <= obs.pd.speed /\ obs.pd.speed <= obs.pd.hi)

\* C15: every PD command lies within [clamp_min, clamp_max] when clamp_min <=
\* clamp_max, and is clamp_min when clamp_min > clamp_max; clamp_min and
\* clamp_max are the values computed when the handler started.
C15_SpeedWithinClampOrFloor ==
    /\ obs.pd.motor # "none" =>
           IF obs.pd.lo <= obs.pd.hi
           THEN obs.pd.lo <= obs.pd.speed /\ obs.pd.speed <= obs.pd.hi
           ELSE obs.pd.speed = obs.pd.lo
    /\ control.pc \in {"pre", "disp"} =>
           \E ml \in MotorLimits, pl \in ProfileLimits :
               \A which \in {"coarse", "fine"} :
                   /\ control.min_speed[which] = fmax(ml.min, pl.min)
                   /\ control.max_speed[which] = fmin(ml.max, pl.max)

\* A PD command that the ceiling cut, under consistent limits.
C15_Witness ==
    /\ obs.pd.motor # "none"
    /\ obs.pd.lo < obs.pd.hi
    /\ obs.pd.speed = obs.pd.hi
    /\ motors[obs.pd.motor] = obs.pd.speed

\* C16: the phase, the target weight, the charge configuration and the tuner
\* session change only in steps of the Control task.
C16_ControlIsTheOnlyWriter ==
    [][(charge_mode_config' # charge_mode_config \/ g_session' # g_session)
           => obs'.task = "control"]_vars

OutOfBounds(req) ==
    \/ req.name = "s0" /\ ~validate_target_weight(req.value)
    \/ req.name = "c5" /\ ~validate_threshold(req.value)

\* C17: a REST request with a target weight or a stop threshold outside its
\* range leaves the charge configuration and the target weight as they were.
C17_OutOfBoundsRejected ==
    [][(obs'.task = "rest" /\ OutOfBounds(obs'.req))
           => charge_mode_config' = charge_mode_config]_vars

(***************************************************************************)
(* The history of charges (ai_tuning.c, 706-772 and 903-945) under the     *)
(* end of a drop in charge_mode_wait_for_complete.                         *)
(*   MaxHistDrops  drops completed, per behaviour                          *)
(*   MaxHistResets times the history is cleared or applied, per behaviour  *)
(* obs.log lists the records handed to ai_tuning_record_charge since the   *)
(* history was last emptied, obs.done counts the drops completed since     *)
(* then, tuned or not.                                                     *)
(***************************************************************************)
MaxHistDrops == 12
MaxHistResets == 1

HistObs(step, log, done) ==
    [task |-> "control", step |-> step, log |-> log, done |-> done]

HistFrame == UNCHANGED <<mainVars, store, sideVars, chargeVars>>

\* The end of a drop without the test of ai_tuning_is_active: every drop
\* goes into the history.
HistDropEndsAlwaysCharge(profile_idx, overthrow, total_time_ms) ==
    /\ budget.drops < MaxHistDrops
    /\ budget' = [budget EXCEPT !.drops = @ + 1]
    /\ g_history' =
           ai_tuning_record_charge(g_history, profile_idx, profiles[profile_idx],
               overthrow, charge_mode_config.coarse_stop_threshold,
               charge_mode_config.fine_stop_threshold)
    /\ obs' = HistObs("charge",
                      Append(obs.log,
                             [coarse_kp |-> profiles[profile_idx].coarse_kp,
                              coarse_kd |-> profiles[profile_idx].coarse_kd,
                              fine_kp |-> profiles[profile_idx].fine_kp,
                              fine_kd |-> profiles[profile_idx].fine_kd,
                              overthrow |-> overthrow,
                              profile_idx |-> profile_idx]),
                      obs.done + 1)
    /\ UNCHANGED <<g_session, g_tuning, profiles>>
    /\ HistFrame

\* charge_mode_wait_for_complete, lines 465-510: a drop of an active session
\* goes to ai_tuning_record_drop, any other drop to ai_tuning_record_charge
\* with the gains of the selected profile.
HistDropEnds(profile_idx, overthrow, total_time_ms) ==
    /\ budget.drops < MaxHistDrops
    /\ budget' = [budget EXCEPT !.drops = @ + 1]
    /\ IF ai_tuning_is_active(g_session)
       THEN /\ \E used \in ai_tuning_get_next_params(g_session, g_tuning) :
                LET telemetry ==
                        DropTelemetry(ai_tuning_get_motor_mode(g_session), used,
                                      overthrow, total_time_ms,
                                      charge_mode_config.target_charge_weight)
                    st == ai_tuning_record_drop([s |-> g_session, t |-> g_tuning],
                              telemetry, charge_mode_config.coarse_stop_threshold)
                IN  /\ g_session' = st.s
                    /\ g_tuning' = st.t
            /\ obs' = HistObs("tuned_drop", obs.log, obs.done + 1)
            /\ UNCHANGED <<g_history, profiles>>
       ELSE /\ g_history' =
                   ai_tuning_record_charge(g_history, profile_idx, profiles[profile_idx],
                       overthrow, charge_mode_config.coarse_stop_threshold,
                       charge_mode_config.fine_stop_threshold)
            /\ obs' = HistObs("charge",
                              Append(obs.log,
                                     [coarse_kp |-> profiles[profile_idx].coarse_kp,
                                      coarse_kd |-> profiles[profile_idx].coarse_kd,
                                      fine_kp |-> profiles[profile_idx].fine_kp,
                                      fine_kd |-> profiles[profile_idx].fine_kd,
                                      overthrow |-> overthrow,
                                      profile_idx |-> profile_idx]),
                              obs.done + 1)
            /\ UNCHANGED <<g_session, g_tuning, profiles>>
    /\ HistFrame

\* http_rest_ai_tuning_start
HistStart(profile_idx) ==
    /\ budget.sessions < MaxSessions
    /\ g_session' = ai_tuning_start_session(g_history, profile_idx)
    /\ g_tuning' = ai_tuning_start_tuning(charge_mode_config)
    /\ budget' = [budget EXCEPT !.sessions = @ + 1]
    /\ obs' = HistObs("start", obs.log, obs.done)
    /\ UNCHANGED <<g_history, profiles>>
    /\ HistFrame

\* http_rest_ai_tuning_cancel
HistCancel ==
    /\ ai_tuning_is_active(g_session)
    /\ g_session' = ai_tuning_cancel
    /\ obs' = HistObs("cancel", obs.log, obs.done)
    /\ UNCHANGED <<g_tuning, g_history, profiles, budget>>
    /\ HistFrame

\* http_rest_ai_tuning_clear_history
HistClear ==
    /\ budget.rest < MaxHistResets
    /\ g_history # HistoryAtReset
    /\ g_history' = ai_tuning_clear_history
    /\ budget' = [budget EXCEPT !.rest = @ + 1]
    /\ obs' = HistObs("clear_history", <<>>, 0)
    /\ UNCHANGED <<g_session, g_tuning, profiles>>
    /\ HistFrame

\* http_rest_ai_tuning_apply_refined: the suggestions go into the profile
\* and the history starts again.
HistApplyRefined(profile_idx) ==
    /\ budget.rest < MaxHistResets
    /\ g_history.has_suggestions
    /\ LET r == ai_tuning_apply_refined_params(g_history, profiles, profile_idx) IN
        /\ g_history' = r.h
        /\ profiles' = r.profiles
    /\ budget' = [budget EXCEPT !.rest = @ + 1]
    /\ obs' = HistObs("apply_refined", <<>>, 0)
    /\ UNCHANGED <<g_session, g_tuning>>
    /\ HistFrame

HistInit ==
    /\ PowerOn(FactoryMeta, FactoryFlash)
    /\ store = StoreInit
    /\ SideAtReset
    /\ g_session = SessionAtReset
    /\ g_tuning = TuningAtReset
    /\ g_history = HistoryAtReset
    /\ profiles = [p \in ProfileIdx |-> IF p = 0 THEN HighGains ELSE LowGains]
    /\ charge_mode_config = [ChargeConfigAtReset EXCEPT !.target_charge_weight = 2000]
    /\ control = ControlAtReset
    /\ encoder_event_queue = <<>>
    /\ motors = MotorsAtReset
    /\ leds = "default"
    /\ obs = HistObs("none", <<>>, 0)
    /\ budget = BudgetAtReset

HistNext ==
    \/ \E p \in ProfileIdx : HistDropEnds(p, 600, 8000)
    \/ HistStart(0)
    \/ HistCancel
    \/ HistClear
    \/ HistApplyRefined(1)

HistSpec == HistInit /\ [][HistNext]_vars

\* The k-th most recent record of the ring, k = 1 for the newest.
RingRecent(h, k) ==
    h.drops[((h.next_idx + AI_TUNING_HISTORY_SIZE - k) % AI_TUNING_HISTORY_SIZE) + 1]

\* The ring holds the last min(Len(log), 10) records of log, newest first at
\* next_idx - 1.
RingHoldsMostRecent(h, log) ==
    /\ h.count = fminf(Len(log), AI_TUNING_HISTORY_SIZE)
    /\ h.next_idx = Len(log) % AI_TUNING_HISTORY_SIZE
    /\ \A k \in 1..h.count : RingRecent(h, k) = log[Len(log) - k + 1]

MaxWifiRequests == 2
MaxWifiCorrupt == 2
MaxWifiBoots == 1

RECURSIVE SeqSum(_)
SeqSum(a) == IF a = <<>> THEN 0 ELSE Head(a) + SeqSum(Tail(a))

\* strlen of the string held in a char array (the whole array if it holds
\* no terminator).
CstrLen(a) ==
    IF \E i \in 1..Len(a) : a[i] = 0
    THEN (CHOOSE i \in 1..Len(a) : a[i] = 0 /\ \A j \in 1..(i - 1) : a[j] # 0) - 1
    ELSE Len(a)

Cstr(a) == SubSeq(a, 1, CstrLen(a))

\* snprintf(dst, sizeof(dst), "%s", src) one character short.
snprintf_s_short(dst, src) ==
    LET n == fminf(CstrLen(src), Len(dst) - 2) IN
    [i \in 1..Len(dst) |-> IF i <= n THEN src[i] ELSE IF i = n + 1 THEN 0 ELSE dst[i]]

\* snprintf(dst, sizeof(dst), "%s", src): the string of src cut to
\* sizeof(dst) - 1 characters, then the terminator; the rest of dst stays.
snprintf_s(dst, src) ==
    LET n == fminf(CstrLen(src), Len(dst) - 1) IN
    [i \in 1..Len(dst) |-> IF i <= n THEN src[i] ELSE IF i = n + 1 THEN 0 ELSE dst[i]]

\* strncpy(dst, value, size - 1); dst[size - 1] = '\0': the characters of
\* value, cut to size - 1, and zeros up to the end of the array.
strncpy_z(size, value) ==
    [i \in 1..size |-> IF i <= Len(value) /\ i <= size - 1 THEN value[i] ELSE 0]

\* calculate_checksum with the SSID left out of the sum.
calculate_checksum_no_ssid(creds) ==
    add32(add32(add32(creds.magic, le32(SeqSum(creds.home_password))),
                add32(creds.auth_method, creds.timeout_ms)),
          le32(IF creds.wifi_enabled THEN 1 ELSE 0))

\* calculate_checksum
calculate_checksum(creds) ==
    add32(add32(add32(creds.magic,
                      le32(SeqSum(creds.home_ssid) + SeqSum(creds.home_password))),
                add32(creds.auth_method, creds.timeout_ms)),
          le32(IF creds.wifi_enabled THEN 1 ELSE 0))

\* memcpy(buffer, &creds, sizeof(wifi_credentials_t)) into the zeroed page
\* buffer; pad is what the compiler left in the padding bytes of creds.
creds_page(creds, pad) ==
    creds.magic \o creds.home_ssid \o creds.home_password \o <<pad, pad, pad>>
        \o creds.auth_method \o creds.timeout_ms
        \o <<IF creds.wifi_enabled THEN 1 ELSE 0>> \o <<pad, pad, pad>>
        \o creds.checksum \o Zeros(FLASH_PAGE_SIZE - 120)

\* memcpy(creds, flash_ptr, sizeof(wifi_credentials_t)).  The byte of
\* wifi_enabled is read as a bool; the behaviours considered change no
\* stored byte there, so it holds 0 or 1 whenever the checksum is computed.
creds_read(fl) ==
    [magic |-> SubSeq(fl, 1, 4),
     home_ssid |-> SubSeq(fl, 5, 37),
     home_password |-> SubSeq(fl, 38, 101),
     auth_method |-> SubSeq(fl, 105, 108),
     timeout_ms |-> SubSeq(fl, 109, 112),
     wifi_enabled |-> fl[113] # 0,
     checksum |-> SubSeq(fl, 117, 120)]

\* read_wifi_credentials
read_wifi_credentials(fl) ==
    LET creds == creds_read(fl) IN
    [ok |-> creds.magic = le32(CONFIG_MAGIC) /\ creds.checksum = calculate_checksum(creds),
     creds |-> creds]

\* write_wifi_credentials: the sector is erased and its first page
\* programmed with the record built from the globals; the result is that
\* of reading it back.
write_wifi_credentials(h, pad) ==
    LET body == [magic |-> le32(CONFIG_MAGIC),
                 home_ssid |-> snprintf_s(Zeros(SSID_SIZE), h.ssid),
                 home_password |-> snprintf_s(Zeros(PASSWORD_SIZE), h.password),
                 auth_method |-> h.auth_method,
                 timeout_ms |-> h.timeout_ms,
                 wifi_enabled |-> h.wifi_enabled,
                 checksum |-> le32(0)]
        creds == [body EXCEPT !.checksum = calculate_checksum(body)]
        page == creds_page(creds, pad)
    IN  [flash |-> page, ok |-> read_wifi_credentials(page).ok]

\* wireless_config_init
wireless_config_init(h, fl) ==
    LET r == read_wifi_credentials(fl) IN
    [has_saved |-> r.ok,
     home |-> IF r.ok
              THEN [ssid |-> snprintf_s(h.ssid, r.creds.home_ssid),
                    password |-> snprintf_s(h.password, r.creds.home_password),
                    auth_method |-> r.creds.auth_method,
                    timeout_ms |-> r.creds.timeout_ms,
                    wifi_enabled |-> r.creds.wifi_enabled]
              ELSE h]

\* Well-formed configurations a request can carry: a short SSID with the
\* longest password, the longest SSID (a byte above 127 in it) with no
\* password, and the largest integers.
Chars(n, ch) == [i \in 1..n |-> ch]

WifiConfigs ==
    { [w0 |-> <<65, 66>>, w1 |-> Chars(PASSWORD_SIZE - 1, 112), w2 |-> le32(2), w3 |-> le32(30000),
       w4 |-> TRUE],
      [w0 |-> <<200>> \o Chars(SSID_SIZE - 2, 90), w1 |-> <<>>, w2 |-> le32(0), w3 |-> le32(0),
       w4 |-> FALSE],
      [w0 |-> <<66, 65>>, w1 |-> <<120>>, w2 |-> Chars(4, 255), w3 |-> Chars(4, 255),
       w4 |-> TRUE] }

PadValues == {0, 170}

\* Stored bytes that may change: of the magic, the first two of the SSID, a
\* padding byte, of auth_method and of the checksum; by +1 or -1.
CorruptAt == {1, 5, 6, 102, 105, 117}
CorruptBy == {1, 255}

WifiObs(task, step, result, written, saved) ==
    [task |-> task, step |-> step, result |-> result, written |-> written,
     saved |-> saved]

WifiFrame == UNCHANGED <<mainVars, store, ota, tuneVars, chargeVars>>

\* http_rest_wireless_config with w0 .. w4 and save.
http_rest_wireless_config(r, save, pad) ==
    /\ budget.rest < MaxWifiRequests
    /\ budget' = [budget EXCEPT !.rest = @ + 1]
    /\ LET h == [ssid |-> strncpy_z(SSID_SIZE, r.w0),
                 password |-> strncpy_z(PASSWORD_SIZE, r.w1),
                 auth_method |-> r.w2, timeout_ms |-> r.w3, wifi_enabled |-> r.w4]
           w == write_wifi_credentials(h, pad)
       IN  /\ home' = h
           /\ IF save
              THEN /\ wifi_flash' = w.flash
                   /\ obs' = WifiObs("rest", "save", w.ok, w.flash, h)
              ELSE /\ wifi_flash' = wifi_flash
                   /\ obs' = WifiObs("rest", "set", TRUE, obs.written, obs.saved)
    /\ WifiFrame

\* A stored byte changes.
WifiCorrupt(at, by) ==
    /\ obs.written # <<>>
    /\ budget.corrupt < MaxWifiCorrupt
    /\ budget' = [budget EXCEPT !.corrupt = @ + 1]
    /\ wifi_flash' = [wifi_flash EXCEPT ![at] = (@ + by) % 256]
    /\ obs' = WifiObs("flash", "corrupt", TRUE, obs.written, obs.saved)
    /\ UNCHANGED home
    /\ WifiFrame

\* A boot: the globals are loaded with their initial values and app.cpp
\* calls wireless_config_init.
WifiBoot ==
    /\ budget.boots < MaxWifiBoots
    /\ budget' = [budget EXCEPT !.boots = @ + 1]
    /\ LET r == wireless_config_init(HomeAtReset, wifi_flash) IN
        /\ home' = r.home
        /\ obs' = WifiObs("app", "boot", r.has_saved, obs.written, obs.saved)
    /\ UNCHANGED wifi_flash
    /\ WifiFrame

WifiInit ==
    /\ PowerOn(FactoryMeta, FactoryFlash)
    /\ store = StoreInit
    /\ SideAtReset
    /\ g_session = SessionAtReset
    /\ g_tuning = TuningAtReset
    /\ g_history = HistoryAtReset
    /\ profiles = [p \in ProfileIdx |-> LowGains]
    /\ charge_mode_config = ChargeConfigAtReset
    /\ control = ControlAtReset
    /\ encoder_event_queue = <<>>
    /\ motors = MotorsAtReset
    /\ leds = "default"
    /\ obs = WifiObs("none", "none", TRUE, <<>>, HomeAtReset)
    /\ budget = [rest |-> 0, corrupt |-> 0, boots |-> 0]

WifiNext ==
    \/ \E r \in WifiConfigs, save \in BOOLEAN, pad \in PadValues :
           http_rest_wireless_config(r, save, pad)
    \/ \E at \in CorruptAt, by \in CorruptBy : WifiCorrupt(at, by)
    \/ WifiBoot

WifiSpec == WifiInit /\ [][WifiNext]_vars

\* The configuration a record or the globals hold: the two strings and the
\* three scalars.
WifiValue(ssid, password, auth_method, timeout_ms, wifi_enabled) ==
    <<Cstr(ssid), Cstr(password), auth_method, timeout_ms, wifi_enabled>>

HomeValue(h) ==
    WifiValue(h.ssid, h.password, h.auth_method, h.timeout_ms, h.wifi_enabled)

\* C23: after a well-formed configuration is written, reading the region
\* finds it valid and returns that configuration, field by field; and a boot
\* that finds the page as it was written loads that configuration.
C23_WriteThenRead ==
    /\ obs.step = "save" =>
           LET r == read_wifi_credentials(wifi_flash) IN
           /\ obs.result
           /\ r.ok
           /\ WifiValue(r.creds.home_ssid, r.creds.home_password, r.creds.auth_method,
                        r.creds.timeout_ms, r.creds.wifi_enabled) = HomeValue(home)
           /\ \E c \in WifiConfigs :
                  HomeValue(home) = <<c.w0, c.w1, c.w2, c.w3, c.w4>>
    /\ (obs.step = "boot" /\ obs.written # <<>> /\ wifi_flash = obs.written) =>
           (obs.result /\ HomeValue(home) = HomeValue(obs.saved))

\* The longest SSID was saved, and a later boot loaded it.
C23_Witness ==
    /\ obs.step = "boot"
    /\ obs.result
    /\ wifi_flash = obs.written
    /\ Len(Cstr(home.ssid)) = SSID_SIZE - 1
    /\ home.ssid[1] = 200
    /\ home # HomeAtReset

\* The stored bytes that differ from the page last written.
WifiDiff == {i \in 1..FLASH_PAGE_SIZE : wifi_flash[i] # obs.written[i]}

\* The bytes of the magic, the SSID, the password, auth_method, timeout_ms
\* and the checksum.
WifiCheckedBytes == (1..101) \cup (105..112) \cup (117..120)

\* C24 as claimed: a boot that finds one or more stored bytes changed
\* reports no configuration and leaves the globals at their values.
C24_CorruptSectorAbsent ==
    (obs.step = "boot" /\ obs.written # <<>> /\ WifiDiff # {}) =>
        (~obs.result /\ home = HomeAtReset)

\* C24: a boot that finds exactly one byte of the magic, the SSID, the
\* password, auth_method, timeout_ms or the checksum changed reports no
\* configuration; and whenever a boot reports no configuration the globals
\* keep the values they had.
C24_SingleByteCorruptionAbsent ==
    /\ (obs.step = "boot" /\ obs.written # <<>>
           /\ Cardinality(WifiDiff) = 1 /\ WifiDiff \subseteq WifiCheckedBytes) =>
           ~obs.result
    /\ (obs.step = "boot" /\ ~obs.result) => home = HomeAtReset

\* A byte of the stored SSID changed, and the boot kept the initial values
\* although a different configuration had been saved.
C24_Witness ==
    /\ obs.step = "boot"
    /\ obs.written # <<>>
    /\ WifiDiff = {5}
    /\ ~obs.result
    /\ home = HomeAtReset
    /\ HomeValue(obs.saved) # HomeValue(HomeAtReset)

(***************************************************************************)
(* Simple OTA module (OpenTrickler_AI_Files_v1.17/ota/ota.c).  The REST    *)
(* handlers call ota_begin, ota_write, ota_end, ota_apply and ota_abort in *)
(* whatever order the client sends them.  Sizes are in bytes.  The         *)
(* contents of the staging area are not modelled: the outcome of the       *)
(* read-back comparison in flush_write_buffer and of the SHA-256           *)
(* comparison in ota_end are inputs of the calls.                          *)
(***************************************************************************)
MaxOtaCalls == 7
MaxOtaFaults == 1

PICO_FLASH_SIZE_BYTES == 2097152
FLASH_SECTOR_SIZE == 4096
OTA_WRITE_BUFFER_SIZE == 4096
OTA_MAX_FIRMWARE_SIZE == (PICO_FLASH_SIZE_BYTES \div 2) - FLASH_SECTOR_SIZE

\* The state test at the head of ota_begin, with RECEIVING let through.
ota_begin_rejects_lax(o) ==
    o.state # "IDLE" /\ o.state # "ERROR" /\ o.state # "RECEIVING"

\* ota_begin, line 71: the call is refused unless the module is idle or in
\* error.
ota_begin_rejects(o) == o.state # "IDLE" /\ o.state # "ERROR"

\* flush_write_buffer: [ret, o].  verify_ok is the outcome of the memcmp of
\* the programmed pages against the buffer.
flush_write_buffer(o, verify_ok) ==
    IF o.write_buffer_pos = 0 THEN [ret |-> "OTA_OK", o |-> o]
    ELSE LET write_size ==
                 ((o.write_buffer_pos + FLASH_PAGE_SIZE - 1) \div FLASH_PAGE_SIZE)
                     * FLASH_PAGE_SIZE
         IN  IF ~verify_ok THEN [ret |-> "OTA_ERROR_FLASH_WRITE", o |-> o]
             ELSE [ret |-> "OTA_OK",
                   o |-> [o EXCEPT !.flash_offset = @ + write_size,
                                   !.write_buffer_pos = 0]]

\* ota_begin: [ret, o].
ota_begin(o, firmware_size, expected_sha256) ==
    IF ota_begin_rejects(o)
    THEN [ret |-> "OTA_ERROR_ALREADY_IN_PROGRESS", o |-> o]
    ELSE IF firmware_size = 0 \/ firmware_size > OTA_MAX_FIRMWARE_SIZE
    THEN [ret |-> "OTA_ERROR_INVALID_SIZE", o |-> o]
    ELSE [ret |-> "OTA_OK",
          o |-> [state |-> "RECEIVING", total_size |-> firmware_size,
                 received_size |-> 0, flash_offset |-> 0,
                 write_buffer_pos |-> 0, verify_checksum |-> expected_sha256,
                 last_error |-> "OTA_OK"]]

\* One iteration of the copy loop of ota_write (lines 146-167) on
\* [ret, o, remaining]; nothing is left to do once remaining is 0 or a
\* flush has failed.
ota_write_iteration(st, verify_ok) ==
    IF st.remaining = 0 \/ st.ret # "OTA_OK" THEN st
    ELSE LET room == OTA_WRITE_BUFFER_SIZE - st.o.write_buffer_pos
             to_copy == IF room > st.remaining THEN st.remaining ELSE room
             o1 == [st.o EXCEPT !.write_buffer_pos = @ + to_copy,
                                !.received_size = @ + to_copy]
         IN  IF o1.write_buffer_pos >= OTA_WRITE_BUFFER_SIZE
             THEN LET f == flush_write_buffer(o1, verify_ok)
                  IN  IF f.ret # "OTA_OK"
                      THEN [ret |-> f.ret,
                            o |-> [f.o EXCEPT !.state = "ERROR",
                                              !.last_error = f.ret],
                            remaining |-> st.remaining - to_copy]
                      ELSE [ret |-> "OTA_OK", o |-> f.o,
                            remaining |-> st.remaining - to_copy]
             ELSE [ret |-> "OTA_OK", o |-> o1, remaining |-> st.remaining - to_copy]

\* n iterations in a row, evaluated by halves to keep the evaluation shallow.
RECURSIVE ota_write_iterations(_, _, _)
ota_write_iterations(st, verify_ok, n) ==
    IF n = 0 THEN st
    ELSE IF n = 1 THEN ota_write_iteration(st, verify_ok)
    ELSE LET half == ota_write_iterations(st, verify_ok, n \div 2)
         IN  IF half.remaining = 0 \/ half.ret # "OTA_OK" THEN half
             ELSE ota_write_iterations(half, verify_ok, n - n \div 2)

\* The copy loop: it ends within one iteration per buffer-full and two more.
ota_write_loop(o, remaining, verify_ok) ==
    LET st == ota_write_iterations([ret |-> "OTA_OK", o |-> o, remaining |-> remaining],
                                   verify_ok,
                                   remaining \div OTA_WRITE_BUFFER_SIZE + 2)
    IN  [ret |-> st.ret, o |-> st.o]

\* ota_write: [ret, o].
ota_write(o, len, verify_ok) ==
    IF o.state # "RECEIVING" THEN [ret |-> "OTA_ERROR_NOT_INITIALIZED", o |-> o]
    ELSE LET n == IF o.received_size + len > o.total_size
                  THEN o.total_size - o.received_size ELSE len
         IN  IF n = 0 THEN [ret |-> "OTA_OK", o |-> o]
             ELSE ota_write_loop(o, n, verify_ok)

\* ota_end: [ret, o].  has_hw_sha256 is the build's HAS_HW_SHA256 and
\* sha_ok the outcome of the digest comparison.
ota_end(o, verify_ok, has_hw_sha256, sha_ok) ==
    IF o.state # "RECEIVING" THEN [ret |-> "OTA_ERROR_NOT_INITIALIZED", o |-> o]
    ELSE LET f == flush_write_buffer(o, verify_ok)
         IN  IF f.ret # "OTA_OK"
             THEN [ret |-> f.ret,
                   o |-> [f.o EXCEPT !.state = "ERROR", !.last_error = f.ret]]
             ELSE IF has_hw_sha256 /\ f.o.verify_checksum /\ ~sha_ok
             THEN [ret |-> "OTA_ERROR_CHECKSUM_MISMATCH",
                   o |-> [f.o EXCEPT !.state = "ERROR",
                                     !.last_error = "OTA_ERROR_CHECKSUM_MISMATCH"]]
             ELSE [ret |-> "OTA_OK",
                   o |-> [f.o EXCEPT !.state = "READY_TO_APPLY"]]

\* ota_apply: [ret, o].  In READY_TO_APPLY the call copies the staging area
\* over the running image with interrupts disabled and reboots through the
\* watchdog; it never returns, and the statics come back as the loader and
\* ota_init set them.
ota_apply(o) ==
    IF o.state # "READY_TO_APPLY" THEN [ret |-> "OTA_ERROR_NOT_READY", o |-> o]
    ELSE [ret |-> "reboot", o |-> OtaAtReset]

\* ota_abort: the flash offset and the last error are left as they are.
ota_abort(o) ==
    [o EXCEPT !.state = "IDLE", !.total_size = 0, !.received_size = 0,
              !.write_buffer_pos = 0]

OtaSizes == {0, 5000, 9000, OTA_MAX_FIRMWARE_SIZE, OTA_MAX_FIRMWARE_SIZE + 1}
OtaLens == {0, 1000, 4096, 6000, OTA_MAX_FIRMWARE_SIZE}

OtaObs(call, ret, has_hw_sha256) ==
    [task |-> "rest", step |-> call, ret |-> ret, has_hw_sha256 |-> has_hw_sha256]

OtaFrame == UNCHANGED <<mainVars, store, wifi_flash, home, tuneVars, chargeVars>>

OtaCalled(call, r, fault) ==
    /\ budget.calls < MaxOtaCalls
    /\ fault => budget.faults < MaxOtaFaults
    /\ ota' = r.o
    /\ obs' = OtaObs(call, r.ret, obs.has_hw_sha256)
    /\ budget' = [calls |-> budget.calls + 1,
                  faults |-> budget.faults + (IF fault THEN 1 ELSE 0)]
    /\ OtaFrame

http_rest_ota_begin(firmware_size, expected_sha256) ==
    /\ firmware_size \in OtaSizes
    /\ OtaCalled("ota_begin", ota_begin(ota, firmware_size, expected_sha256), FALSE)

http_rest_ota_write(len, verify_ok) ==
    /\ len \in OtaLens
    /\ OtaCalled("ota_write", ota_write(ota, len, verify_ok), ~verify_ok)

http_rest_ota_end(verify_ok, sha_ok) ==
    /\ verify_ok \/ sha_ok
    /\ OtaCalled("ota_end", ota_end(ota, verify_ok, obs.has_hw_sha256, sha_ok),
                 ~(verify_ok /\ sha_ok))

http_rest_ota_apply ==
    /\ obs.step # "boot"
    /\ OtaCalled("ota_apply", ota_apply(ota), FALSE)

http_rest_ota_abort ==
    /\ ota.state # "IDLE" \/ ota.flash_offset # 0
    /\ OtaCalled("ota_abort", [ret |-> "void", o |-> ota_abort(ota)], FALSE)

OtaInit ==
    /\ PowerOn(FactoryMeta, FactoryFlash)
    /\ store = StoreInit
    /\ SideAtReset
    /\ g_session = SessionAtReset
    /\ g_tuning = TuningAtReset
    /\ g_history = HistoryAtReset
    /\ profiles = [p \in ProfileIdx |-> LowGains]
    /\ charge_mode_config = ChargeConfigAtReset
    /\ control = ControlAtReset
    /\ encoder_event_queue = <<>>
    /\ motors = MotorsAtReset
    /\ leds = "default"
    /\ \E hw \in BOOLEAN : obs = OtaObs("boot", "OTA_OK", hw)
    /\ budget = [calls |-> 0, faults |-> 0]

OtaNext ==
    \/ \E size \in OtaSizes, sha \in BOOLEAN : http_rest_ota_begin(size, sha)
    \/ \E len \in OtaLens, ok \in BOOLEAN : http_rest_ota_write(len, ok)
    \/ \E ok \in BOOLEAN, sha_ok \in BOOLEAN : http_rest_ota_end(ok, sha_ok)
    \/ http_rest_ota_apply
    \/ http_rest_ota_abort

OtaSpec == OtaInit /\ [][OtaNext]_vars

OtaIsError(ret) == ret \notin {"OTA_OK", "reboot", "void"}

OtaUntouched ==
    /\ ota'.state = ota.state
    /\ ota'.total_size = ota.total_size
    /\ ota'.received_size = ota.received_size
    /\ ota'.flash_offset = ota.flash_offset

\* C25: ota_begin succeeds only from IDLE or ERROR, ota_write and ota_end are
\* accepted only in RECEIVING, ota_apply only in READY_TO_APPLY, and
\* READY_TO_APPLY is entered only by an ota_end that returned OTA_OK; a call
\* made in any other state returns an error code and leaves the state, the
\* sizes and the flash offset as they were.
C25_OtaCallOrder ==
    [][/\ obs'.step = "ota_begin" =>
            IF ota.state \in {"IDLE", "ERROR"} THEN TRUE
            ELSE OtaIsError(obs'.ret) /\ OtaUntouched
       /\ obs'.step \in {"ota_write", "ota_end"} =>
            IF ota.state = "RECEIVING" THEN TRUE
            ELSE OtaIsError(obs'.ret) /\ OtaUntouched
       /\ obs'.step = "ota_apply" =>
            IF ota.state = "READY_TO_APPLY" THEN obs'.ret = "reboot"
            ELSE OtaIsError(obs'.ret) /\ OtaUntouched
       /\ (ota'.state = "READY_TO_APPLY" /\ ota.state # "READY_TO_APPLY") =>
            obs'.step = "ota_end" /\ obs'.ret = "OTA_OK"
       /\ (ota'.state = "RECEIVING" /\ ota.state # "RECEIVING") =>
            obs'.step = "ota_begin" /\ obs'.ret = "OTA_OK"
      ]_vars

\* A 9000-byte image was begun, written across a buffer flush and ended, and
\* a second ota_begin made while the image is ready to apply was refused.
C25_Witness ==
    /\ obs.step = "ota_begin"
    /\ obs.ret = "OTA_ERROR_ALREADY_IN_PROGRESS"
    /\ ota.state = "READY_TO_APPLY"
    /\ ota.received_size = 9000
    /\ ota.flash_offset = 9216

(***************************************************************************)
(* Bank validation over arbitrary metadata: the bootloader is started on   *)
(* every combination of active bank, valid flags, sizes (zero, one byte,   *)
(* the whole bank, one byte more than the bank) and stored CRCs (zero, the *)
(* CRC of the bank's first `size` bytes, that value plus one).             *)
(***************************************************************************)
ValSizes == {0, 1, BANK_A_SIZE, BANK_A_SIZE + 1}
ValCrcs == {"zero", "match", "off"}

ValCrc(fl, bank, size, choice) ==
    LET actual == IF size > 0 /\ size <= bank_get_size(bank)
                  THEN crc32_calculate(BankBytes(fl, bank, size)) ELSE 7
    IN  CASE choice = "zero" -> 0
          [] choice = "match" -> actual
          [] choice = "off" -> (actual + 1) % CrcRange

ValMetas ==
    {[FactoryMeta EXCEPT !.active_bank = a,
                         !.valid = [b \in Banks |-> IF b = "A" THEN va ELSE vb],
                         !.size = [b \in Banks |-> IF b = "A" THEN sa ELSE sb],
                         !.crc32 = [b \in Banks |->
                                      IF b = "A" THEN ValCrc(InServiceFlash, "A", sa, ca)
                                      ELSE ValCrc(InServiceFlash, "B", sb, cb)]] :
       a \in Banks, va \in BOOLEAN, vb \in BOOLEAN,
       sa \in ValSizes, sb \in ValSizes, ca \in ValCrcs, cb \in ValCrcs}

ValInit ==
    /\ \E m \in ValMetas : PowerOn(m, InServiceFlash)
    /\ store = StoreInit
    /\ SideAtReset
    /\ AppAtReset

ValNext ==
    \/ BootCheckCount
    \/ BootValidate
    \/ BootJump

ValSpec == ValInit /\ [][ValNext]_vars

\* C26: the bootloader's validation of a bank succeeds if and only if the
\* bank is flagged valid and either size and CRC are both zero or the size
\* is within the bank and the CRC over that many bytes equals the stored
\* one; the bootloader goes on to the jump with the active bank when the
\* active bank validates, and otherwise only after a rollback to a bank
\* that validates.  A bank not flagged valid is never jumped into.
C26_BankValidation ==
    [][pc = "bl_validate" =>
         /\ BankPassesValidation(meta.active_bank, meta, flash)
              <=> (pc' = "bl_jump" /\ meta' = meta)
         /\ (pc' = "bl_jump" /\ meta' # meta)
              <=> /\ ~BankPassesValidation(meta.active_bank, meta, flash)
                  /\ meta' = metadata_trigger_rollback(meta)
                  /\ BankPassesValidation(meta'.active_bank, meta', flash)
         /\ pc' = "bl_jump" => meta'.valid[meta'.active_bank]
      ]_vars

\* The active bank is not flagged valid while its size and CRC are zero, the
\* other bank is flagged valid with a CRC that does not match, and the
\* bootloader has rolled back and halted.
C26_Witness ==
    /\ pc = "halt"
    /\ meta.rollback_occurred
    /\ ~meta.valid[bank_get_opposite(meta.active_bank)]
    /\ meta.size[bank_get_opposite(meta.active_bank)] = 0
    /\ meta.crc32[bank_get_opposite(meta.active_bank)] = 0
    /\ meta.valid[meta.active_bank]
    /\ meta.size[meta.active_bank] = BANK_A_SIZE
    /\ ~BankPassesValidation(meta.active_bank, meta, flash)

\* C27: when firmware_manager_finalize_update, called during an update,
\* returns, the target bank is flagged valid if and only if the call returned
\* success; also when the target bank was flagged valid, holding an older
\* firmware, before the update started.
C27_TargetValidIffSuccess ==
    [][(last'.op = "finalize" /\ ctx.state = "RECEIVING") =>
           (meta'.valid[ctx.target_bank] <=> last'.ret)
      ]_vars

(***************************************************************************)
(* Single drops, without the REST task: the Control task and the user's    *)
(* buttons, with scale readings on both sides of every threshold of a      *)
(* 20.00 gr target (coarse stop 5.00 gr, fine stop 0.03 gr).               *)
(***************************************************************************)
DropWeights == {0, 1200, 1800, 1996, 1997, 2000, 2003, 2004}

DropNext ==
    \/ \E skip \in BOOLEAN, w \in TargetWeights : ChargeEnter(skip, w)
    \/ MenuPoll
    \/ DispatchWaitForZero
    \/ \E p \in SelectedProfiles, ml \in MotorLimits, pl \in ProfileLimits :
           DispatchWaitForComplete(p, ml, pl)
    \/ \E w \in DropWeights : DispatchWaitForCupRemoval(w)
    \/ DispatchWaitForCupReturn
    \/ DispatchExit
    \/ \E scale \in WaitScale : WaitForZeroStep(scale)
    \/ \E scale \in WaitScale : WaitForCupRemovalStep(scale)
    \/ \E scale \in WaitScale : WaitForCupReturnStep(scale)
    \/ PreChargeTimeout
    \/ \E w \in DropWeights, dt \in SampleGaps : PreChargeSample(w, dt)
    \/ DispenseNoSample
    \/ \E w \in DropWeights, dt \in SampleGaps : DispenseSample(w, dt)
    \/ \E w \in DropWeights, ms \in ElapsedTimes, gate \in BOOLEAN :
           DispenseStop(w, ms, gate)
    \/ \E e \in {"BUTTON_RST_PRESSED", "BUTTON_ENCODER_PRESSED"} : UserPress(e)

\* A device with or without a servo gate.
DropInit == ChargeInitWith({"GATE_DISABLED", "GATE_CLOSE"})

DropSpec == DropInit /\ [][DropNext]_vars

\* The error of a reading: target minus measured.
ErrorAt(weight) == charge_mode_config.target_charge_weight - weight

\* C28: in FINE_ONLY mode the pre-charge keeps commanding the coarse motor
\* until the first sample whose error, target minus measured, is below the
\* coarse stop threshold; that sample commands the coarse motor to zero
\* before any fine-motor command; the fine sub-phase then runs until a
\* sample whose error is below the fine stop threshold.
C28_PreChargeToCoarseStop ==
    [][/\ control.pc = "pre" /\ obs'.step = "pre_done" =>
            /\ ErrorAt(obs'.weight) < charge_mode_config.coarse_stop_threshold
            /\ motors'.coarse = 0
       /\ control.pc = "pre" /\ obs'.step = "pre_sample" =>
            /\ ErrorAt(obs'.weight) >= charge_mode_config.coarse_stop_threshold
            /\ obs'.pd.motor = "coarse"
       /\ (control.pc = "disp" /\ ai_tuning_get_motor_mode(g_session) = "FINE_ONLY"
             /\ obs'.step \in {"sample", "stop"}) =>
            /\ motors'.coarse = 0
            /\ obs'.step = "stop"
                 <=> ErrorAt(obs'.weight) < charge_mode_config.fine_stop_threshold
      ]_vars

CupRemovalEntered == control.pc = "dispatch" /\ control'.pc = "removal"

\* C29 as stated: with error = target - measured, the drop is classified
\* over iff error < -fine_stop, under iff error > fine_stop, and normal
\* otherwise, so that |error| = fine_stop is normal.
C29_StrictBands ==
    [][CupRemovalEntered =>
         LET error == ErrorAt(obs'.weight)
             fine_stop == charge_mode_config.fine_stop_threshold
         IN  /\ leds' = "over_charge" <=> error < 0 - fine_stop
             /\ leds' = "under_charge" <=> error > fine_stop
             /\ leds' = "normal_charge" <=> (error >= 0 - fine_stop /\ error <= fine_stop)
      ]_vars

\* C29: the drop is classified over iff error <= -fine_stop, otherwise
\* under iff error >= fine_stop, and normal otherwise, so that an error of
\* exactly fine_stop is under and one of exactly -fine_stop is over.
C29_InclusiveBands ==
    [][CupRemovalEntered =>
         LET error == ErrorAt(obs'.weight)
             fine_stop == charge_mode_config.fine_stop_threshold
         IN  /\ leds' = "over_charge" <=> error <= 0 - fine_stop
             /\ leds' = "under_charge" <=> (error > 0 - fine_stop /\ error >= fine_stop)
             /\ leds' = "normal_charge" <=> (error > 0 - fine_stop /\ error < fine_stop)
      ]_vars

\* The reading after a drop is 0.03 gr below the target, the fine stop
\* threshold exactly, and the drop is shown as under-charged.
C29_Witness ==
    /\ control.pc = "removal"
    /\ obs.task = "control"
    /\ obs.step = "dispatch"
    /\ ErrorAt(obs.weight) = charge_mode_config.fine_stop_threshold
    /\ charge_mode_config.fine_stop_threshold > 0
    /\ leds = "under_charge"

\* The tuner took one drop: its count of drops went up by one, or the cap on
\* the drops of a session ended the session in ERROR.
TunerTookDrop ==
    IF drops_limit_reached(g_session)
    THEN g_session'.state = "ERROR" /\ g_session'.drops_completed = g_session.drops_completed
    ELSE g_session'.drops_completed = g_session.drops_completed + 1

\* The history of charges took one record.
HistoryTookCharge ==
    /\ g_history'.next_idx = (g_history.next_idx + 1) % AI_TUNING_HISTORY_SIZE
    /\ g_history'.count = fmin(g_history.count + 1, AI_TUNING_HISTORY_SIZE)

InDrop == control.pc \in {"pre", "disp"}

MaxStepDrops == 6

StepObs(step, log) == [task |-> "control", step |-> step, log |-> log]

StepStart(profile_idx) ==
    /\ g_session = SessionAtReset
    /\ g_session' = ai_tuning_start_session(g_history, profile_idx)
    /\ g_tuning' = ai_tuning_start_tuning(charge_mode_config)
    /\ obs' = StepObs("start", <<>>)
    /\ UNCHANGED <<g_history, profiles, budget>>
    /\ TuneFrame

StepRecordDrop(overthrow, total_time_ms) ==
    /\ ai_tuning_is_active(g_session)
    /\ Len(obs.log) < MaxStepDrops
    /\ \E used \in ai_tuning_get_next_params(g_session, g_tuning) :
        LET telemetry == DropTelemetry(ai_tuning_get_motor_mode(g_session), used,
                                       overthrow, total_time_ms,
                                       charge_mode_config.target_charge_weight)
            st == ai_tuning_record_drop([s |-> g_session, t |-> g_tuning], telemetry,
                                        charge_mode_config.coarse_stop_threshold)
        IN  /\ g_session' = st.s
            /\ g_tuning' = st.t
    /\ obs' = StepObs("record_drop",
                      Append(obs.log, overthrow > charge_mode_config.coarse_stop_threshold))
    /\ UNCHANGED <<g_history, profiles, budget>>
    /\ TuneFrame

StepInit ==
    /\ PowerOn(FactoryMeta, FactoryFlash)
    /\ store = StoreInit
    /\ SideAtReset
    /\ g_session = SessionAtReset
    /\ g_tuning = TuningAtReset
    /\ g_history = HistoryAtReset
    /\ profiles = [p \in ProfileIdx |-> IF p = 0 THEN HighGains ELSE LowGains]
    /\ charge_mode_config = [ChargeConfigAtReset EXCEPT !.target_charge_weight = 2000]
    /\ control = ControlAtReset
    /\ encoder_event_queue = <<>>
    /\ motors = MotorsAtReset
    /\ leds = "default"
    /\ obs = StepObs("none", <<>>)
    /\ budget = BudgetAtReset

StepNext ==
    \/ \E p \in ProfileIdx : StepStart(p)
    \/ \E o \in DropOverthrows, ms \in DropTimes : StepRecordDrop(o, ms)

StepSpec == StepInit /\ [][StepNext]_vars

FourClean == <<FALSE, FALSE, FALSE, FALSE>>

StartRejected ==
    /\ last'.op = "start"
    /\ ~last'.ret
    /\ ~last'.mfail
    /\ ~last'.ffail
    /\ ctx.initialized
    /\ updates' = updates

\* C32: a rejected firmware_manager_start_update leaves the update context
\* unchanged; an update that was RECEIVING remains RECEIVING, so that its
\* later write_chunk and finalize calls are still accepted.
C32_RejectedStartKeepsContext ==
    [][StartRejected =>
         /\ ctx' = ctx
         /\ ctx.state = "RECEIVING" => ctx'.state = "RECEIVING"
      ]_vars

(***************************************************************************)
(* HTTP firmware upload (src/src/firmware_update/firmware_upload.c): the   *)
(* three lwIP POST callbacks of one connection at a time.  `obs` holds the *)
(* upload_connection_state_t of the connection and, once it is closed, the *)
(* response that was sent; `budget` counts the uploads.  Each call of      *)
(* httpd_post_receive_data gets a chain of one pbuf.                       *)
(***************************************************************************)
MaxUploads == 2

UploadConn(open, size, crc, started, error, response) ==
    [task |-> "upload", open |-> open, expected_size |-> size,
     expected_crc32 |-> crc, upload_started |-> started,
     upload_error |-> error, response |-> response]

UploadNoConn(response) == UploadConn(FALSE, 0, 0, FALSE, FALSE, response)

\* The image a client uploads and the X-Firmware-CRC32 values it sends
\* with it: none (0), the right one, a wrong one.
UploadImage == Chunk(FLASH_PAGE_SIZE + 100)
UploadCrcs == {0, crc32_calculate(UploadImage),
               (crc32_calculate(UploadImage) + 1) % CrcRange}

UploadFrame == UNCHANGED <<store, sideVars, tuneVars, chargeVars>>

\* httpd_post_begin for the upload URI: X-Firmware-Size and
\* X-Firmware-CRC32 are parsed, then the update is started.
httpd_post_begin(size_header, crc_header) ==
    /\ pc = "app"
    /\ ctx.initialized
    /\ ~obs.open
    /\ budget.uploads < MaxUploads
    /\ budget' = [budget EXCEPT !.uploads = @ + 1]
    /\ IF size_header = 0
       THEN /\ obs' = UploadConn(TRUE, size_header, crc_header, FALSE, TRUE, "none")
            /\ UNCHANGED mainVars
       ELSE /\ start_update(size_header)
            /\ obs' = UploadConn(TRUE, size_header, crc_header,
                                 last'.ret, ~last'.ret, "none")
    /\ UploadFrame

\* httpd_post_receive_data: the pbuf is handed to write_chunk; when that
\* fails the update is cancelled and the connection marked as failed.
httpd_post_receive_data(data) ==
    /\ pc = "app"
    /\ ctx.initialized
    /\ obs.open
    /\ IF obs.upload_error
       THEN UNCHANGED <<mainVars, obs>>
       ELSE \/ /\ write_chunk(data)
               /\ last'.op = "write_chunk"
               /\ last'.ret
               /\ obs' = obs
            \/ /\ write_chunk(data)
               /\ last'.op = "crash"
               /\ obs' = UploadNoConn("none")
            \/ \E okWrite \in Outcomes, okInvalid \in BOOLEAN, okClear \in BOOLEAN :
               LET rejected == chunk_rejected(ctx, Len(data))
                   failed == IF rejected
                             THEN set_error(ctx)
                             ELSE set_error([ctx EXCEPT !.crc = crc32_update(ctx.crc, data)])
                   n == NFail(rejected \/ okWrite) + NFail(okInvalid) + NFail(okClear)
               IN
               /\ rejected => okWrite
               /\ ~rejected => ~okWrite
               /\ failed.target_bank = BANK_UNKNOWN => okInvalid
               /\ Within(n)
               /\ faults' = faults + n
               /\ meta' = cancel_metadata(meta, failed, okInvalid, okClear)
               /\ ctx' = [failed EXCEPT !.state = "IDLE", !.bytes_written = 0]
               /\ last' = Call("cancel", TRUE, ~okInvalid \/ ~okClear, ~rejected, "none")
               /\ obs' = [obs EXCEPT !.upload_error = TRUE]
               /\ UNCHANGED <<flash, pc, running, bs, streak, fin, updates>>
    /\ UNCHANGED budget
    /\ UploadFrame

\* httpd_post_finished: the response is chosen, a started upload is
\* finalized (or cancelled when no CRC was sent), the connection closed.
httpd_post_finished ==
    /\ pc = "app"
    /\ ctx.initialized
    /\ obs.open
    /\ IF obs.upload_error
       THEN /\ obs' = UploadNoConn("error")
            /\ UNCHANGED mainVars
       ELSE IF obs.upload_started
       THEN IF obs.expected_crc32 # 0
            THEN /\ finalize_update(obs.expected_crc32)
                 /\ obs' = UploadNoConn(IF last'.ret THEN "success" ELSE "error")
            ELSE /\ cancel_update
                 /\ obs' = UploadNoConn("error")
       ELSE /\ obs' = UploadNoConn("error")
            /\ UNCHANGED mainVars
    /\ UNCHANGED budget
    /\ UploadFrame

UploadInit ==
    /\ PowerOn(InServiceMeta, InServiceFlash)
    /\ store = StoreInit
    /\ SideAtReset
    /\ g_session = SessionAtReset
    /\ g_tuning = TuningAtReset
    /\ g_history = HistoryAtReset
    /\ profiles = [p \in ProfileIdx |-> LowGains]
    /\ charge_mode_config = ChargeConfigAtReset
    /\ control = ControlAtReset
    /\ encoder_event_queue = <<>>
    /\ motors = MotorsAtReset
    /\ leds = "default"
    /\ obs = UploadNoConn("none")
    /\ budget = [uploads |-> 0]

UploadNext ==
    \/ BootCheckCount
    \/ BootValidate
    \/ BootJump
    \/ firmware_manager_init
    \/ \E size \in StartSizes, crc \in UploadCrcs : httpd_post_begin(size, crc)
    \/ \E size \in ChunkSizes : httpd_post_receive_data(Chunk(size))
    \/ httpd_post_finished

UploadSpec == UploadInit /\ [][UploadNext]_vars

\* C33: when an upload has ended with an error response and no metadata or
\* flash operation failed, the firmware manager is in IDLE and the
\* update_in_progress flag is clear.
C33_FailedUploadLeavesIdle ==
    (/\ ~obs.open
     /\ obs.response = "error"
     /\ pc = "app"
     /\ ctx.initialized
     /\ faults = 0)
    => (ctx.state = "IDLE" /\ meta.update_in_progress = "NONE")

\* C34: a call of firmware_manager_activate_and_reboot changes active_bank
\* only when the update state is COMPLETE, and then to the target bank of
\* that update; in every other state it leaves active_bank as it was.
C34_ActivateOnlyWhenComplete ==
    [][last'.op = "activate" =>
         \/ meta'.active_bank = meta.active_bank
         \/ /\ ctx.state = "COMPLETE"
            /\ meta'.active_bank = ctx.target_bank
      ]_vars

\* C35: whenever write_chunk takes its padding path (an accepted chunk
\* whose size is not a multiple of the page size), the chunk it copies into
\* the page-sized write_buffer is at most one page long, so the copy never
\* runs past the buffer.
C35_PaddingCopyFitsBuffer ==
    [][LET size == ctx'.bytes_written - ctx.bytes_written IN
       /\ last'.op # "crash"
       /\ (last'.op = "write_chunk" /\ last'.ret /\ size % FLASH_PAGE_SIZE # 0)
            => size <= FLASH_PAGE_SIZE
      ]_vars

LeavesDispense == control.pc \in {"pre", "disp"} /\ control'.pc \notin {"pre", "disp"}

\* C36: whenever charge_mode_wait_for_complete returns (the drop finished,
\* or the user aborted in the pre-charge loop or in the main loop), the
\* speed last commanded to each motor is 0 and, when a servo gate is
\* present, the state last commanded to the gate is closed.
C36_LeavingDispenseStopsAndCloses ==
    [][LeavesDispense =>
         /\ motors'.coarse = 0
         /\ motors'.fine = 0
         /\ motors.gate # "GATE_DISABLED" => motors'.gate = "GATE_CLOSE"
      ]_vars

\* C37: the simple OTA is in READY_TO_APPLY only when every declared byte
\* was received, so that an ota_end after a short upload does not make the
\* image appliable.
C37_ReadyOnlyWhenComplete ==
    ota.state = "READY_TO_APPLY" => ota.received_size = ota.total_size

(***************************************************************************)
(* Flash ranges of the simple OTA (2 MB flash) and the sector of the WiFi  *)
(* configuration (wireless.c).                                             *)
(***************************************************************************)
WIFI_FLASH_OFFSET == 983040

OTA_STAGING_OFFSET == PICO_FLASH_SIZE_BYTES \div 2

\* ota_begin, lines 104-115: the bytes erased from OTA_STAGING_OFFSET on.
ota_erase_size(firmware_size) ==
    ((firmware_size + FLASH_SECTOR_SIZE - 1) \div FLASH_SECTOR_SIZE) * FLASH_SECTOR_SIZE

\* ota_apply, lines 267-284: the bytes erased and programmed from offset 0 on.
ota_copy_size(received_size) ==
    ((received_size + FLASH_SECTOR_SIZE - 1) \div FLASH_SECTOR_SIZE) * FLASH_SECTOR_SIZE

\* The flash range [offset, offset + size) has a byte in the WiFi sector.
TouchesWifiSector(offset, size) ==
    /\ size > 0
    /\ offset < WIFI_FLASH_OFFSET + FLASH_SECTOR_SIZE
    /\ WIFI_FLASH_OFFSET < offset + size

\* C38: no flash erase or program of the simple OTA touches the sector of
\* the WiFi configuration: not the staging erase of an accepted ota_begin,
\* not the buffer flushes of ota_write and ota_end, not the copy of
\* ota_apply.
C38_OtaSparesWifiSector ==
    [][/\ (obs'.step = "ota_begin" /\ obs'.ret = "OTA_OK") =>
            ~TouchesWifiSector(OTA_STAGING_OFFSET, ota_erase_size(ota'.total_size))
       /\ obs'.step \in {"ota_write", "ota_end"} =>
            ~TouchesWifiSector(OTA_STAGING_OFFSET + ota.flash_offset,
                               (ota'.flash_offset - ota.flash_offset)
                                   + OTA_WRITE_BUFFER_SIZE)
       /\ (obs'.step = "ota_apply" /\ obs'.ret = "reboot") =>
            ~TouchesWifiSector(0, ota_copy_size(ota.received_size))
      ]_vars

\* C39: the motor mode that an iteration of the main dispense loop reads,
\* and the one read when the drop stops and its time is apportioned, is the
\* mode read at the entry of charge_mode_wait_for_complete: a tuner start,
\* cancel or phase change does not take effect in the middle of a drop.
C39_OneModePerDrop ==
    [][(control.pc = "disp" /\ obs'.task = "control" /\ obs'.step \in {"sample", "stop"})
         => ai_tuning_get_motor_mode(g_session) = control.initial_motor_mode
      ]_vars

\* C40: for every completed drop in NORMAL mode the coarse time and the
\* fine time that charge_mode_wait_for_complete computes add up to the
\* elapsed time of the drop, also when the drop stops before a switchover
\* from coarse to fine was recorded.
C40_TimesAddUp ==
    (obs.task = "control" /\ obs.step = "stop" /\ obs.times.mode = "NORMAL") =>
        obs.times.coarse_time_ms + obs.times.fine_time_ms = obs.times.total_time_ms
====
